---- MODULE Spec2Model ----
(***************************************************************************)
(* Tool-calling demo scripts of gpt-oss/testing_kp: the weather / time     *)
(* tool functions, the tool dispatch (execute_tool_call) and the           *)
(* conversation turn (assistant_with_tools).                               *)
(*                                                                         *)
(* Conventions of the model                                                *)
(*  - a Python str that the code inspects character by character (the      *)
(*    timezone argument, upper-cased before the table lookup) is a         *)
(*    sequence of one-character strings; other strings are TLA+ strings;   *)
(*  - a JSON value that may have the wrong Python type is a record with a  *)
(*    type flag (isStr / isInt) next to its payload;                       *)
(*  - a temperature is an integer number of tenths of a degree, so that    *)
(*    c * 9/5 + 32 is exact: 18*c + 320 tenths;                            *)
(*  - random.randint / random.choice and the replies of the HTTP weather   *)
(*    source and of the chat-completion endpoint are inputs of the         *)
(*    actions, drawn from the ranges the code gives.                       *)
(***************************************************************************)
EXTENDS Integers, Sequences, FiniteSets, TLC

VARIABLES
    OWM_API_KEY,    \* module global read from the environment at import
    call,           \* the last direct call of a tool function / dispatch,
                    \* with what its environment (the weather source, the
                    \* email opener) replied to it
    rnd,            \* the random draws that call consumed
    result,         \* what that call did: returned a mapping, or raised
    http_requests,  \* the HTTP requests issued by that call, in order
    invoked,        \* the tool functions that call invoked, in order
    turn_script,    \* the script whose assistant_with_tools is running
    pc,             \* position of assistant_with_tools
    messages,       \* its local message list
    tool_calls,     \* response_message.tool_calls of the first response
    idx,            \* 1-based index of the tool call the loop is at
    requests,       \* the completion requests sent in this turn, in order
    executed,       \* ids of the tool calls whose function ran, in order
    turn_http,      \* number of HTTP weather requests issued in this turn
    second_calls,   \* tool calls listed by the second response
    ret,            \* what the turn returned
    cloud,          \* the resources that exist in the AWS and Azure accounts
    files,          \* the files of the working directory
    dep,            \* the deployment script that is running: position, locals
    deployed,       \* per platform, what deploy returned when it last returned
    runs,           \* number of deployment script runs started
    client,         \* the test client's main: arguments, position, endpoint
    conversation,   \* the conversation list of interactive_chat
    chat,           \* interactive_chat: position, the last iteration's request
    demo            \* main of a demo script: its start-up check, its queries

vars == <<OWM_API_KEY, call, rnd, result, http_requests, invoked, turn_script, pc,
          messages,
          tool_calls, idx, requests, executed, turn_http, second_calls, ret,
          cloud, files, dep, deployed, runs, client, conversation, chat, demo>>

toolVars == <<call, rnd, result, http_requests, invoked>>
turnVars == <<turn_script, pc, messages, tool_calls, idx, requests, executed, turn_http,
              second_calls, ret>>
deployVars == <<cloud, files, dep, deployed, runs>>
\* the test client and the mains of the demo scripts
clientVars == <<client, conversation, chat, demo>>

-----------------------------------------------------------------------------
(* Bounds of the model *)

\* longest tool_calls list a response carries
MaxToolCalls == 2
\* integer values of the days argument range over -DaysSpan .. 5 + DaysSpan
DaysSpan == 1
\* the upstream forecast list holds at most 8 * MaxUpstreamDays entries
MaxUpstreamDays == 2

-----------------------------------------------------------------------------
(* Python values *)

\* os.getenv of a variable that is not set
KeyUnset == "<unset>"
Placeholder == "your_openweather_api_key_here"
KeyValues == {KeyUnset, "", Placeholder, "live-key"}

\* `not OWM_API_KEY or OWM_API_KEY == 'your_openweather_api_key_here'`
NoKey(k) == k = KeyUnset \/ k = "" \/ k = Placeholder

\* None where a str is expected (message content, a result not yet there)
PyNone == "<None>"

Lowers == <<"a","b","c","d","e","f","g","h","i","j","k","l","m",
            "n","o","p","q","r","s","t","u","v","w","x","y","z">>
Uppers == <<"A","B","C","D","E","F","G","H","I","J","K","L","M",
            "N","O","P","Q","R","S","T","U","V","W","X","Y","Z">>

UpperChar(c) ==
    IF \E i \in 1..26 : Lowers[i] = c
    THEN Uppers[CHOOSE i \in 1..26 : Lowers[i] = c]
    ELSE c

LowerChar(c) ==
    IF \E i \in 1..26 : Uppers[i] = c
    THEN Lowers[CHOOSE i \in 1..26 : Uppers[i] = c]
    ELSE c

\* str.upper() and str.lower() on a sequence of characters
Upper(s) == [i \in DOMAIN s |-> UpperChar(s[i])]
Lower(s) == [i \in DOMAIN s |-> LowerChar(s[i])]

RECURSIVE Str(_)
\* the Python str a sequence of characters stands for (used in f-strings)
Str(s) == IF s = <<>> THEN "" ELSE s[1] \o Str(Tail(s))

-----------------------------------------------------------------------------
(* get_current_time *)

US_Eastern == <<"U","S","/","E","a","s","t","e","r","n">>
US_Pacific == <<"U","S","/","P","a","c","i","f","i","c">>
US_Central == <<"U","S","/","C","e","n","t","r","a","l">>
US_Mountain == <<"U","S","/","M","o","u","n","t","a","i","n">>
GMT == <<"G","M","T">>
UTC == <<"U","T","C">>
Asia_Tokyo == <<"A","s","i","a","/","T","o","k","y","o">>
Europe_Paris == <<"E","u","r","o","p","e","/","P","a","r","i","s">>
Europe_London == <<"E","u","r","o","p","e","/","L","o","n","d","o","n">>

\* the dict literal timezone_mapping, as (key, value) pairs
timezone_mapping ==
    << << <<"E","S","T">>, US_Eastern >>,
       << <<"P","S","T">>, US_Pacific >>,
       << <<"C","S","T">>, US_Central >>,
       << <<"M","S","T">>, US_Mountain >>,
       << <<"G","M","T">>, GMT >>,
       << <<"U","T","C">>, UTC >>,
       << <<"J","S","T">>, Asia_Tokyo >>,
       << <<"C","E","T">>, Europe_Paris >>,
       << <<"B","S","T">>, Europe_London >> >>

\* timezone_mapping.get(key, default)
mapping_get(key, default) ==
    IF \E i \in DOMAIN timezone_mapping : timezone_mapping[i][1] = key
    THEN timezone_mapping[CHOOSE i \in DOMAIN timezone_mapping :
                              timezone_mapping[i][1] = key][2]
    ELSE default

\* names of the timezone database (pytz.all_timezones), the part of it used
AllTimezones ==
    {US_Eastern, US_Pacific, US_Central, US_Mountain, GMT, UTC, Asia_Tokyo,
     Europe_Paris, Europe_London, <<"E","S","T">>, <<"M","S","T">>, <<"C","E","T">>, <<"A","u","s","t","r","a","l","i","a","/","S","y","d","n","e","y">>}

\* pytz.timezone(name) returns a timezone: 'UTC' in any case, or a database
\* name (looked up case-insensitively); otherwise UnknownTimeZoneError
pytz_timezone_ok(name) ==
    \/ Upper(name) = UTC
    \/ \E z \in AllTimezones : Lower(z) = Lower(name)

available_timezones_sample == <<"UTC", "US/Eastern", "Europe/London", "Asia/Tokyo">>

StrVal(chars) == [isStr |-> TRUE, chars |-> chars]
\* a JSON value that is no string (null, a number, a list)
NotAStr == [isStr |-> FALSE, chars |-> <<>>]

\* the lookup without .upper(): abbreviations match in upper case only
get_current_time_case_sensitive(timezone, now) ==
    IF ~timezone.isStr
    THEN [timezone |-> timezone,
          error |-> "Error getting time: object has no attribute 'upper'",
          status |-> "error"]
    ELSE LET tz_name == mapping_get(timezone.chars, timezone.chars) IN
         IF pytz_timezone_ok(tz_name)
         THEN [current_time |-> now,
               timezone |-> StrVal(tz_name),
               status |-> "success"]
         ELSE [timezone |-> timezone,
               error |-> "Unknown timezone: " \o Str(timezone.chars),
               available_timezones_sample |-> available_timezones_sample,
               status |-> "error"]

\* without the UnknownTimeZoneError handler: the generic one answers
get_current_time_generic_handler_only(timezone, now) ==
    IF ~timezone.isStr
    THEN [timezone |-> timezone,
          error |-> "Error getting time: object has no attribute 'upper'",
          status |-> "error"]
    ELSE LET tz_name == mapping_get(Upper(timezone.chars), timezone.chars) IN
         IF pytz_timezone_ok(tz_name)
         THEN [current_time |-> now,
               timezone |-> StrVal(tz_name),
               status |-> "success"]
         ELSE [timezone |-> timezone,
               error |-> "Error getting time: " \o Str(timezone.chars),
               status |-> "error"]

get_current_time(timezone, now) ==
    IF ~timezone.isStr
    THEN \* timezone.upper() raises AttributeError: the generic handler
         [timezone |-> timezone,
          error |-> "Error getting time: object has no attribute 'upper'",
          status |-> "error"]
    ELSE LET tz_name == mapping_get(Upper(timezone.chars), timezone.chars) IN
         IF pytz_timezone_ok(tz_name)
         THEN [current_time |-> now,
               timezone |-> StrVal(tz_name),
               status |-> "success"]
         ELSE [timezone |-> timezone,
               error |-> "Unknown timezone: " \o Str(timezone.chars),
               available_timezones_sample |-> available_timezones_sample,
               status |-> "error"]

-----------------------------------------------------------------------------
(* What a Python call does: it returns a value or raises *)

Returned(m) == [kind |-> "returned", value |-> m]
Raised(e) == [kind |-> "raised", exc |-> e]
NoResult == [kind |-> "none"]

Min(a, b) == IF a <= b THEN a ELSE b
Max(a, b) == IF a >= b THEN a ELSE b

\* seq[:n] of Python, n an integer of either sign
PySlice(seq, n) ==
    IF n >= 0 THEN SubSeq(seq, 1, Min(n, Len(seq)))
    ELSE SubSeq(seq, 1, Max(Len(seq) + n, 0))

-----------------------------------------------------------------------------
(* get_weather *)

\* random.randint(0, 35)
TempLo == 0
TempHi == 35
\* random.randint(30, 90)
HumidityLo == 30
HumidityHi == 90
conditions_choices == <<"sunny", "cloudy", "rainy", "snowy">>

\* str.title() on the words the code applies it to
Title(w) ==
    CASE w = "sunny" -> "Sunny"
      [] w = "cloudy" -> "Cloudy"
      [] w = "rainy" -> "Rainy"
      [] w = "snowy" -> "Snowy"
      [] w = "light rain" -> "Light Rain"
      [] w = "clear sky" -> "Clear Sky"
      [] OTHER -> w

\* the random draws of one call of get_weather
WeatherDraws ==
    [temp : TempLo..TempHi,
     conditions : {conditions_choices[i] : i \in DOMAIN conditions_choices},
     humidity : HumidityLo..HumidityHi]

\* what requests.get / raise_for_status / response.json() / the field
\* accesses do: the reply of the weather source
WeatherData ==
    {[name |-> "Tokyo", country |-> "JP", temp |-> 215, feels_like |-> 220,
      humidity |-> 60, description |-> "light rain"],
     [name |-> "Paris", country |-> "FR", temp |-> -35, feels_like |-> -60,
      humidity |-> 81, description |-> "clear sky"]}
NoData == [name |-> "", country |-> "", temp |-> 0, feels_like |-> 0,
           humidity |-> 0, description |-> ""]
WeatherReplies ==
    {[outcome |-> o, data |-> NoData] :
        o \in {"connection_error", "http_error", "missing_field", "bad_body"}}
    \cup {[outcome |-> "ok", data |-> d] : d \in WeatherData}

\* `units = "metric" if unit == "celsius" else "imperial"`
owm_units(unit) == IF unit = "celsius" THEN "metric" ELSE "imperial"

\* the HTTP requests one call of get_weather issues
get_weather_requests(key, location, unit) ==
    IF NoKey(key) THEN <<>>
    ELSE <<[url |-> "weather", q |-> location, appid |-> key,
            units |-> owm_units(unit)]>>

\* the conversion with its 9/5 factor left out
simulated_temperature_offset_only(temp, unit) ==
    IF unit = "fahrenheit" THEN 10 * temp + 320 ELSE 10 * temp

simulated_temperature(temp, unit) ==
    IF unit = "fahrenheit" THEN 18 * temp + 320 ELSE 10 * temp

simulated_unit_label(unit) == IF unit = "fahrenheit" THEN "°F" ELSE "°C"

real_unit_label(unit) == IF unit = "celsius" THEN "°C" ELSE "°F"

get_weather(key, location, unit, r, reply) ==
    IF NoKey(key)
    THEN [location |-> location,
          temperature |-> simulated_temperature(r.temp, unit),
          unit |-> simulated_unit_label(unit),
          conditions |-> Title(r.conditions),
          humidity |-> r.humidity,
          note |-> "This is simulated data. Please add a valid OpenWeatherMap API key.",
          status |-> "simulated"]
    ELSE CASE reply.outcome \in {"connection_error", "http_error"} ->
                [location |-> location,
                 error |-> "Network error: " \o reply.outcome,
                 status |-> "error"]
           [] reply.outcome = "missing_field" ->
                [location |-> location,
                 error |-> "Invalid location or API response: 'main'",
                 status |-> "error"]
           [] reply.outcome = "bad_body" ->
                [location |-> location,
                 error |-> "Unexpected error: body is not JSON",
                 status |-> "error"]
           [] OTHER ->
                [location |-> reply.data.name \o ", " \o reply.data.country,
                 temperature |-> reply.data.temp,
                 feels_like |-> reply.data.feels_like,
                 humidity |-> reply.data.humidity,
                 unit |-> real_unit_label(unit),
                 conditions |-> Title(reply.data.description),
                 status |-> "success"]

-----------------------------------------------------------------------------
(* get_weather_forecast *)

IntVal(n) == [isInt |-> TRUE, n |-> n]
\* a JSON value that is no integer (null, a string such as "3")
NotAnInt == [isInt |-> FALSE, n |-> 0]

\* the scripts whose get_weather_forecast differ in the real-data path
Scripts == {"testing_kp", "ollama", "weather_demo"}

\* an upstream list of 3-hourly entries starting at local hour h0 of day 0;
\* day and hour are what datetime.fromtimestamp(item['dt']) gives
Upstream(h0, len) ==
    [k \in 1..len |-> [day |-> (h0 + 3 * (k - 1)) \div 24,
                       hour |-> (h0 + 3 * (k - 1)) % 24]]

ForecastReplies ==
    {[outcome |-> o, list |-> <<>>] :
        o \in {"connection_error", "http_error", "missing_field"}}
    \cup {[outcome |-> "ok", list |-> Upstream(h0, len)] :
            h0 \in {0, 3, 6, 9, 12, 15, 18, 21}, len \in 0..(8 * MaxUpstreamDays)}

\* the HTTP requests one call of get_weather_forecast issues; with days no
\* integer, min(days * 8, 40) raises before requests.get
get_weather_forecast_requests(key, location, days) ==
    IF NoKey(key) \/ ~days.isInt THEN <<>>
    ELSE <<[url |-> "forecast", q |-> location, appid |-> key,
            units |-> "metric", cnt |-> Min(days.n * 8, 40)]>>

\* the fallback loop `for i in range(days)`: dates base_date + i
simulated_forecasts(n) ==
    [i \in 1..Max(n, 0) |-> [date |-> i - 1, simulated |-> TRUE]]

RECURSIVE SortedDays(_)
\* sorted(forecasts_by_day.items()): the day keys in ascending order
SortedDays(days) ==
    IF days = {} THEN <<>>
    ELSE LET d == CHOOSE x \in days : \A y \in days : x <= y
         IN <<d>> \o SortedDays(days \ {d})

Abs(x) == IF x < 0 THEN -x ELSE x

\* min(day_forecasts, key=lambda x: abs(x[2].hour - 14)): the first entry of
\* the day, in list order, among those closest to 14:00
closest_forecast(list, day) ==
    LET mine == {i \in DOMAIN list : list[i].day = day}
        best == {i \in mine : \A j \in mine :
                    Abs(list[i].hour - 14) <= Abs(list[j].hour - 14)}
    IN CHOOSE i \in best : \A j \in best : i <= j

\* testing_kp.py: group by day, take the first `days` days, one entry each
forecasts_closest14(list, n) ==
    LET keys == SortedDays({list[i].day : i \in DOMAIN list})
        chosen == PySlice(keys, n)
    IN [k \in DOMAIN chosen |->
          LET i == closest_forecast(list, chosen[k])
          IN [date |-> list[i].day, hour |-> list[i].hour]]

RECURSIVE first12_loop_no_processed_days(_, _, _, _)
\* the loop without its processed_days test: every entry from noon on is taken
first12_loop_no_processed_days(items, i, n, forecasts) ==
    IF i > Len(items) THEN forecasts
    ELSE LET item == items[i]
             next == IF item.hour >= 12
                     THEN Append(forecasts, [date |-> item.day, hour |-> item.hour])
                     ELSE forecasts
         IN IF item.hour >= 12 /\ Len(next) >= n THEN next
            ELSE first12_loop_no_processed_days(items, i + 1, n, next)

RECURSIVE first12_loop(_, _, _, _)
\* gpt_oss_ollama_weather.py, gpt_oss_weather_demo.py: the loop over
\* data['list'][:days*8], from item i on, with the forecasts found so far
first12_loop(items, i, n, forecasts) ==
    IF i > Len(items) THEN forecasts
    ELSE LET item == items[i]
             fresh == /\ \A k \in DOMAIN forecasts : forecasts[k].date # item.day
                      /\ item.hour >= 12
             next == IF fresh
                     THEN Append(forecasts, [date |-> item.day, hour |-> item.hour])
                     ELSE forecasts
         IN IF fresh /\ Len(next) >= n THEN next
            ELSE first12_loop(items, i + 1, n, next)

forecasts_first12(list, n) == first12_loop(PySlice(list, n * 8), 1, n, <<>>)

real_forecasts(script, list, n) ==
    IF script = "testing_kp" THEN forecasts_closest14(list, n)
    ELSE forecasts_first12(list, n)

\* without a handler for a reply that lacks the 'list' field
get_weather_forecast_missing_field_unhandled(script, key, location, days, reply) ==
    IF NoKey(key)
    THEN IF ~days.isInt
         THEN Raised("TypeError")   \* range(days), outside any try
         ELSE Returned([location |-> location,
                        forecasts |-> simulated_forecasts(days.n),
                        note |-> "This is simulated forecast data. Please add a valid OpenWeatherMap API key.",
                        status |-> "simulated"])
    ELSE IF ~days.isInt
         THEN Returned([location |-> location,
                        error |-> "Error getting forecast: TypeError",
                        status |-> "error"])
    ELSE CASE reply.outcome \in {"connection_error", "http_error"} ->
                Returned([location |-> location,
                          error |-> IF script = "testing_kp"
                                    THEN "Network error: " \o reply.outcome
                                    ELSE "Error getting forecast: " \o reply.outcome,
                          status |-> "error"])
           [] reply.outcome = "missing_field" -> Raised("KeyError")
           [] OTHER ->
                Returned([location |-> "City, CC",
                          forecasts |-> real_forecasts(script, reply.list, days.n),
                          status |-> "success"])

get_weather_forecast(script, key, location, days, reply) ==
    IF NoKey(key)
    THEN IF ~days.isInt
         THEN Raised("TypeError")   \* range(days), outside any try
         ELSE Returned([location |-> location,
                        forecasts |-> simulated_forecasts(days.n),
                        note |-> "This is simulated forecast data. Please add a valid OpenWeatherMap API key.",
                        status |-> "simulated"])
    ELSE IF ~days.isInt
         THEN Returned([location |-> location,
                        error |-> "Error getting forecast: TypeError",
                        status |-> "error"])
    ELSE CASE reply.outcome \in {"connection_error", "http_error"} ->
                Returned([location |-> location,
                          error |-> IF script = "testing_kp"
                                    THEN "Network error: " \o reply.outcome
                                    ELSE "Error getting forecast: " \o reply.outcome,
                          status |-> "error"])
           [] reply.outcome = "missing_field" ->
                Returned([location |-> location,
                          error |-> IF script = "testing_kp"
                                    THEN "Invalid location or API response: 'list'"
                                    ELSE "Error getting forecast: 'list'",
                          status |-> "error"])
           [] OTHER ->
                Returned([location |-> "City, CC",
                          forecasts |-> real_forecasts(script, reply.list, days.n),
                          status |-> "success"])

-----------------------------------------------------------------------------
(* The tools of gpt_oss_local_demo.py *)

Whitespace == {" ", "\n", "\t"}

\* str.strip() on a sequence of characters
Strip(s) ==
    LET inked == {i \in DOMAIN s : s[i] \notin Whitespace} IN
    IF inked = {} THEN <<>>
    ELSE SubSeq(s, CHOOSE i \in inked : \A j \in inked : i <= j,
                   CHOOSE i \in inked : \A j \in inked : i >= j)

\* the mapping returned without its status entry
draft_email_untagged(recipient, subject, content, cc) ==
    [recipient |-> recipient, subject |-> subject,
     content |-> content, cc |-> cc]

draft_email(recipient, subject, content, cc) ==
    IF ~content.isStr
    THEN \* content.strip() raises AttributeError
         [error |-> "Error drafting email: object has no attribute 'strip'",
          status |-> "error"]
    ELSE [recipient |-> recipient,
          subject |-> subject,
          content |-> StrVal(Strip(content.chars)),
          cc |-> cc,
          status |-> "drafted"]

\* what platform.system() and subprocess.run do: the opener ran, the
\* operating system is none of the three, or the opener failed
OpenOutcomes == {"opened", "unsupported", "called_process_error"}

open_email_client(recipient, subject, content, cc, outcome) ==
    IF ~content.isStr
    THEN \* urllib.parse.quote(content) raises TypeError
         [error |-> "Unexpected error opening email client: TypeError",
          status |-> "error"]
    ELSE CASE outcome = "unsupported" ->
                [error |-> "Unsupported operating system: freebsd",
                 status |-> "error"]
           [] outcome = "called_process_error" ->
                [error |-> "Failed to open email client: CalledProcessError",
                 status |-> "error"]
           [] OTHER ->
                [recipient |-> recipient,
                 subject |-> subject,
                 status |-> "email_client_opened"]

get_system_info ==
    [operating_system |-> "Linux", os_version |-> "#1 SMP",
     architecture |-> "64bit", processor |-> "x86_64",
     python_version |-> "3.11.4", status |-> "success"]

-----------------------------------------------------------------------------
(* Inputs: the arguments a model may supply *)

Locations == {"Tokyo", "Paris"}
\* the schema's enum, and a value outside it
UnitInputs == {"celsius", "fahrenheit", "kelvin"}

Abbreviations == {timezone_mapping[i][1] : i \in DOMAIN timezone_mapping}

\* every spelling of s that differs from it in letter case only
CaseVariants(s) ==
    {v \in [DOMAIN s -> {s[i] : i \in DOMAIN s} \cup {LowerChar(s[i]) : i \in DOMAIN s}] :
        \A i \in DOMAIN s : UpperChar(v[i]) = s[i]}

TimezoneNames ==
    UNION {CaseVariants(a) : a \in Abbreviations}
    \cup {Asia_Tokyo, Lower(Asia_Tokyo), Europe_London, US_Pacific,
          <<"M","a","r","s","/","P","h","o","b","o","s">>, <<"E","D","T">>, <<"T","o","k","y","o">>, <<>>}

TimezoneInputs == {StrVal(n) : n \in TimezoneNames} \cup {NotAStr}

DaysInputs == {IntVal(n) : n \in (0 - DaysSpan)..(5 + DaysSpan)} \cup {NotAnInt}

Clock == {"2025-06-01 12:00:00"}

Recipients == {"ann@example.com"}
Subjects == {"Hello", ""}
ContentInputs ==
    {StrVal(<<" ", "H", "i", "\n">>), StrVal(<<"H", "i">>), StrVal(<<>>), NotAStr}
CcInputs == {PyNone, "bob@example.com"}

\* the keyword arguments decoded from the model's output: the keys present
\* and the value of each (a key that is absent has a filler value)
ArgKeySets ==
    {{}, {"location"}, {"location", "unit"}, {"unit"}, {"timezone"},
     {"location", "days"}, {"location", "city"}, {"timezone", "city"}}

ArgsOf(keys) ==
    [keys : {keys},
     location : IF "location" \in keys THEN Locations ELSE {""},
     unit : IF "unit" \in keys THEN UnitInputs ELSE {""},
     timezone : IF "timezone" \in keys THEN TimezoneInputs ELSE {NotAStr},
     days : IF "days" \in keys THEN DaysInputs ELSE {NotAnInt},
     recipient : {""}, subject : {""}, content : {NotAStr}, cc : {PyNone}]

ArgInputs == UNION {ArgsOf(k) : k \in ArgKeySets}

-----------------------------------------------------------------------------
(* Tool dispatch *)

RegisteredTools == {"get_weather", "get_current_time", "get_weather_forecast"}
LocalTools == {"draft_email", "open_email_client", "get_system_info"}
\* the names a script's if / elif chain knows
RegisteredToolsOf(script) ==
    IF script = "local_demo" THEN LocalTools ELSE RegisteredTools
\* a name no script registers
ToolNames == RegisteredTools \cup {"get_stock_price"}

Params(name) ==
    CASE name = "get_weather" -> {"location", "unit"}
      [] name = "get_current_time" -> {"timezone"}
      [] name = "get_weather_forecast" -> {"location", "days"}
      [] name \in {"draft_email", "open_email_client"} ->
            {"recipient", "subject", "content", "cc"}
      [] OTHER -> {}

Required(name) ==
    CASE name = "get_weather" -> {"location"}
      [] name = "get_weather_forecast" -> {"location"}
      [] name \in {"draft_email", "open_email_client"} ->
            {"recipient", "subject", "content"}
      [] OTHER -> {}

\* whether f(**args) binds: no unexpected keyword, no missing argument
Binds(name, args) ==
    /\ args.keys \subseteq Params(name)
    /\ Required(name) \subseteq args.keys

\* the parameter values of the call, defaults filled in
unit_of(args) == IF "unit" \in args.keys THEN args.unit ELSE "celsius"
timezone_of(args) == IF "timezone" \in args.keys THEN args.timezone ELSE StrVal(UTC)
days_of(args) == IF "days" \in args.keys THEN args.days ELSE IntVal(5)
cc_of(args) == IF "cc" \in args.keys THEN args.cc ELSE PyNone

\* no draw: the call draws no random number
NoDraw == [temp |-> 0, conditions |-> "", humidity |-> 0]
\* no reply: the call issues no request
NoWeatherReply == [outcome |-> "none", data |-> NoData]
NoForecastReply == [outcome |-> "none", list |-> <<>>]
\* no opener: the call opens no email client
NoOpen == "none"

\* the draws and replies one call consumes: random numbers are drawn only
\* without an API key, a reply arrives only for a request that is issued
DrawsFor(key, draws) == IF NoKey(key) THEN draws ELSE {NoDraw}
WeatherRepliesFor(key, replies) == IF NoKey(key) THEN {NoWeatherReply} ELSE replies
ForecastRepliesFor(key, days, replies) ==
    IF NoKey(key) \/ ~days.isInt THEN {NoForecastReply} ELSE replies

\* the draws and replies the environment may give: in.draws, in.wreplies,
\* in.freplies and in.opens are the sets to draw from
Envs(script, key, name, args, in) ==
    LET called(f) == name = f /\ f \in RegisteredToolsOf(script) /\ Binds(f, args) IN
    [script : {script}, key : {key}, now : Clock,
     r : IF called("get_weather")
         THEN DrawsFor(key, in.draws) ELSE {NoDraw},
     wreply : IF called("get_weather")
              THEN WeatherRepliesFor(key, in.wreplies) ELSE {NoWeatherReply},
     freply : IF called("get_weather_forecast")
              THEN ForecastRepliesFor(key, days_of(args), in.freplies)
              ELSE {NoForecastReply},
     open : IF called("open_email_client") /\ args.content.isStr
            THEN in.opens ELSE {NoOpen}]

\* f(**args) for the registered tool `name`
call_tool(name, args, env) ==
    IF ~Binds(name, args) THEN Raised("TypeError")
    ELSE CASE name = "get_weather" ->
                Returned(get_weather(env.key, args.location, unit_of(args),
                                     env.r, env.wreply))
           [] name = "get_current_time" ->
                Returned(get_current_time(timezone_of(args), env.now))
           [] name = "draft_email" ->
                Returned(draft_email(args.recipient, args.subject, args.content,
                                     cc_of(args)))
           [] name = "open_email_client" ->
                Returned(open_email_client(args.recipient, args.subject,
                                           args.content, cc_of(args), env.open))
           [] name = "get_system_info" ->
                Returned(get_system_info)
           [] OTHER ->
                get_weather_forecast(env.script, env.key, args.location,
                                     days_of(args), env.freply)

\* the tool functions f(**args) enters
tool_invoked(registry, name, args) ==
    IF name \in registry /\ Binds(name, args) THEN <<name>> ELSE <<>>

\* the HTTP requests f(**args) issues
tool_requests(registry, name, args, key) ==
    IF name \notin registry \/ ~Binds(name, args) THEN <<>>
    ELSE CASE name = "get_weather" ->
                get_weather_requests(key, args.location, unit_of(args))
           [] name = "get_weather_forecast" ->
                get_weather_forecast_requests(key, args.location, days_of(args))
           [] OTHER -> <<>>

unknown_tool(tool_name) ==
    [error |-> "Unknown tool: " \o tool_name, status |-> "error"]

\* the dispatch whose last branch is an `else` instead of an `elif`
execute_tool_call_no_default(tool_name, arguments, env) ==
    call_tool(tool_name, arguments, env)

\* gpt_oss_weather_demo.py
execute_tool_call(tool_name, arguments, env) ==
    IF tool_name \in RegisteredTools
    THEN call_tool(tool_name, arguments, env)
    ELSE Returned(unknown_tool(tool_name))

-----------------------------------------------------------------------------
(* The state the provisioning scripts and the test client work on *)

\* an account in which nothing has been provisioned
NoCloud ==
    [aws |-> [key_pairs |-> 0, security_groups |-> <<>>, instances |-> <<>>],
     azure |-> [resource_group |-> 0, virtual_network |-> 0, subnet |-> 0,
                network_security_group |-> 0, public_ip |-> 0,
                network_interface |-> 0, virtual_machine |-> 0]]

\* a file that does not exist
NoFile == [exists |-> FALSE, text |-> <<>>]
NoFiles == [aws |-> NoFile, azure |-> NoFile, pem |-> NoFile]

\* no deployment script is running
NoDeploy ==
    [platform |-> "none", pc |-> "idle", steps |-> <<>>, exit |-> "none",
     security_group_id |-> "", instance_id |-> "", nic_id |-> "", vm_id |-> "",
     public_ip |-> PyNone, before |-> <<>>, network |-> <<>>]

\* deploy has not returned yet
NoInfo == [returned |-> FALSE, info |-> <<>>]

\* the test client is not running
NoClient ==
    [pc |-> "idle", endpoint_arg |-> PyNone, platform_arg |-> PyNone,
     interactive |-> FALSE, endpoint |-> PyNone, read |-> <<>>, loaded |-> <<>>,
     created |-> FALSE, sent |-> 0, connection |-> "none", connected |-> FALSE]

\* no demo script is running
NoDemo ==
    [script |-> "none", pc |-> "idle", gate |-> "none", gate_ok |-> FALSE,
     requests |-> 0, queries |-> 0, inputs |-> 0]

NoChat == [pc |-> "idle", inputs |-> 0, request |-> <<>>, before |-> <<>>,
           last |-> "none"]

-----------------------------------------------------------------------------
(* Direct calls of the tool functions and of the dispatch *)

NoCall == [fn |-> "none"]
NoArgs == [keys |-> {}, location |-> "", unit |-> "", timezone |-> NotAStr,
           days |-> NotAnInt, recipient |-> "", subject |-> "",
           content |-> NotAStr, cc |-> PyNone]

Init ==
    /\ OWM_API_KEY \in KeyValues
    /\ call = NoCall
    /\ rnd = NoDraw
    /\ result = NoResult
    /\ http_requests = <<>>
    /\ invoked = <<>>
    /\ turn_script = "none"
    /\ pc = "idle"
    /\ messages = <<>>
    /\ tool_calls = <<>>
    /\ idx = 0
    /\ requests = <<>>
    /\ executed = <<>>
    /\ turn_http = 0
    /\ second_calls = <<>>
    /\ ret = PyNone
    /\ cloud = NoCloud
    /\ files = NoFiles
    /\ dep = NoDeploy
    /\ deployed = [aws |-> NoInfo, azure |-> NoInfo]
    /\ runs = 0
    /\ client = NoClient
    /\ conversation = <<>>
    /\ chat = NoChat
    /\ demo = NoDemo

CallGetWeather ==
    /\ call = NoCall
    /\ \E location \in Locations, unit \in UnitInputs,
          r \in DrawsFor(OWM_API_KEY, WeatherDraws),
          reply \in WeatherRepliesFor(OWM_API_KEY, WeatherReplies) :
        /\ call' = [fn |-> "get_weather", script |-> "testing_kp", tool_name |-> "",
                    reply |-> reply.outcome,
                    args |-> [NoArgs EXCEPT !.keys = {"location", "unit"},
                                            !.location = location, !.unit = unit]]
        /\ rnd' = r
        /\ result' = Returned(get_weather(OWM_API_KEY, location, unit, r, reply))
        /\ http_requests' = get_weather_requests(OWM_API_KEY, location, unit)
        /\ invoked' = <<"get_weather">>
    /\ UNCHANGED <<OWM_API_KEY, deployVars, clientVars, turnVars>>

CallGetCurrentTime ==
    /\ call = NoCall
    /\ \E timezone \in TimezoneInputs, now \in Clock :
        /\ call' = [fn |-> "get_current_time", script |-> "testing_kp", tool_name |-> "",
                    reply |-> "none",
                    args |-> [NoArgs EXCEPT !.keys = {"timezone"},
                                            !.timezone = timezone]]
        /\ result' = Returned(get_current_time(timezone, now))
    /\ rnd' = NoDraw
    /\ http_requests' = <<>>
    /\ invoked' = <<"get_current_time">>
    /\ UNCHANGED <<OWM_API_KEY, deployVars, clientVars, turnVars>>

CallGetWeatherForecast ==
    /\ call = NoCall
    /\ \E script \in Scripts, location \in Locations, days \in DaysInputs :
       \E reply \in ForecastRepliesFor(OWM_API_KEY, days, ForecastReplies) :
        /\ call' = [fn |-> "get_weather_forecast", script |-> script, tool_name |-> "",
                    reply |-> reply.outcome,
                    args |-> [NoArgs EXCEPT !.keys = {"location", "days"},
                                            !.location = location, !.days = days]]
        /\ result' = get_weather_forecast(script, OWM_API_KEY, location, days, reply)
        /\ http_requests' = get_weather_forecast_requests(OWM_API_KEY, location, days)
    /\ rnd' = NoDraw
    /\ invoked' = <<"get_weather_forecast">>
    /\ UNCHANGED <<OWM_API_KEY, deployVars, clientVars, turnVars>>

CallExecuteToolCall ==
    /\ call = NoCall
    /\ \E tool_name \in ToolNames, arguments \in ArgInputs :
       \E env \in Envs("weather_demo", OWM_API_KEY, tool_name, arguments,
                       [draws |-> WeatherDraws, wreplies |-> WeatherReplies,
                        freplies |-> ForecastReplies, opens |-> {NoOpen}]) :
        /\ call' = [fn |-> "execute_tool_call", script |-> "weather_demo",
                    tool_name |-> tool_name, args |-> arguments,
                    reply |-> IF tool_name = "get_weather"
                              THEN env.wreply.outcome ELSE env.freply.outcome]
        /\ rnd' = env.r
        /\ result' = execute_tool_call(tool_name, arguments, env)
        /\ http_requests' = tool_requests(RegisteredTools, tool_name, arguments,
                                           OWM_API_KEY)
        /\ invoked' = tool_invoked(RegisteredTools, tool_name, arguments)
    /\ UNCHANGED <<OWM_API_KEY, deployVars, clientVars, turnVars>>

CallDraftEmail ==
    /\ call = NoCall
    /\ \E recipient \in Recipients, subject \in Subjects,
          content \in ContentInputs, cc \in CcInputs :
        /\ call' = [fn |-> "draft_email", script |-> "local_demo", tool_name |-> "",
                    reply |-> "none",
                    args |-> [NoArgs EXCEPT
                                !.keys = {"recipient", "subject", "content", "cc"},
                                !.recipient = recipient, !.subject = subject,
                                !.content = content, !.cc = cc]]
        /\ result' = Returned(draft_email(recipient, subject, content, cc))
    /\ rnd' = NoDraw
    /\ http_requests' = <<>>
    /\ invoked' = <<"draft_email">>
    /\ UNCHANGED <<OWM_API_KEY, deployVars, clientVars, turnVars>>

CallOpenEmailClient ==
    /\ call = NoCall
    /\ \E recipient \in Recipients, subject \in Subjects,
          content \in ContentInputs, cc \in CcInputs :
       \E outcome \in IF content.isStr THEN OpenOutcomes ELSE {NoOpen} :
        /\ call' = [fn |-> "open_email_client", script |-> "local_demo",
                    tool_name |-> "", reply |-> outcome,
                    args |-> [NoArgs EXCEPT
                                !.keys = {"recipient", "subject", "content", "cc"},
                                !.recipient = recipient, !.subject = subject,
                                !.content = content, !.cc = cc]]
        /\ result' = Returned(open_email_client(recipient, subject, content, cc,
                                                outcome))
    /\ rnd' = NoDraw
    /\ http_requests' = <<>>
    /\ invoked' = <<"open_email_client">>
    /\ UNCHANGED <<OWM_API_KEY, deployVars, clientVars, turnVars>>

CallGetSystemInfo ==
    /\ call = NoCall
    /\ call' = [fn |-> "get_system_info", script |-> "local_demo", tool_name |-> "",
                reply |-> "none", args |-> NoArgs]
    /\ result' = Returned(get_system_info)
    /\ rnd' = NoDraw
    /\ http_requests' = <<>>
    /\ invoked' = <<"get_system_info">>
    /\ UNCHANGED <<OWM_API_KEY, deployVars, clientVars, turnVars>>

\* the caller is done with the result: nothing of a call is retained
Return ==
    /\ call # NoCall
    /\ call' = NoCall
    /\ rnd' = NoDraw
    /\ result' = NoResult
    /\ http_requests' = <<>>
    /\ invoked' = <<>>
    /\ UNCHANGED <<OWM_API_KEY, deployVars, clientVars, turnVars>>

NextTools ==
    \/ CallGetWeather
    \/ CallGetCurrentTime
    \/ CallGetWeatherForecast
    \/ CallExecuteToolCall
    \/ CallDraftEmail
    \/ CallOpenEmailClient
    \/ CallGetSystemInfo
    \/ Return

SpecTools == Init /\ [][NextTools]_vars

-----------------------------------------------------------------------------
(* Properties of the tool functions and of the dispatch (SpecTools) *)

\* no API key configured: unset, empty, or the placeholder
KeyNotConfigured ==
    OWM_API_KEY \in {KeyUnset, "", "your_openweather_api_key_here"}

\* the last call entered tool function f, directly or through the dispatch
Entered(f) ==
    \/ call.fn = f
    \/ /\ call.fn = "execute_tool_call"
       /\ call.tool_name = f
       /\ Binds(f, call.args)

\* C1: for every tool name other than the three registered ones and any
\* argument mapping, execute_tool_call invokes no tool function and returns
\* exactly {"error": "Unknown tool: <name>", "status": "error"}.
C1_UnknownToolIsErrorMapping ==
    (call.fn = "execute_tool_call"
       /\ call.tool_name \notin {"get_weather", "get_current_time",
                                 "get_weather_forecast"})
    => /\ invoked = <<>>
       /\ http_requests = <<>>
       /\ result = [kind |-> "returned",
                    value |-> [error |-> "Unknown tool: " \o call.tool_name,
                               status |-> "error"]]
       /\ (call.tool_name = "get_stock_price"
             => result.value.error = "Unknown tool: get_stock_price")

C1_Witness ==
    /\ call.fn = "execute_tool_call"
    /\ call.tool_name = "get_stock_price"
    /\ call.args.keys = {"location", "unit"}
    /\ result.kind = "returned"
    /\ result.value.status = "error"

\* C7: with no API key configured, for every location and every unit in
\* {celsius, fahrenheit}, get_weather returns status "simulated" with the
\* location echoed and a temperature that is the drawn integer c in 0..35
\* labelled degrees C, or exactly c*9/5+32 (within 32..95) labelled degrees F
\* (temperatures in tenths of a degree).
C7_SimulatedTemperature ==
    (Entered("get_weather") /\ KeyNotConfigured
       /\ unit_of(call.args) \in {"celsius", "fahrenheit"})
    => /\ result.kind = "returned"
       /\ result.value.status = "simulated"
       /\ result.value.location = call.args.location
       /\ rnd.temp \in 0..35
       /\ unit_of(call.args) = "celsius"
            => /\ result.value.unit = "°C"
               /\ result.value.temperature = 10 * rnd.temp
       /\ unit_of(call.args) = "fahrenheit"
            => /\ result.value.unit = "°F"
               /\ 5 * result.value.temperature = 10 * (rnd.temp * 9 + 32 * 5)
               /\ result.value.temperature \in 320..950

C7_Witness ==
    /\ call.fn = "get_weather"
    /\ OWM_API_KEY = "your_openweather_api_key_here"
    /\ call.args.unit = "fahrenheit"
    /\ rnd.temp = 21
    /\ result.value.temperature = 698
    /\ result.value.status = "simulated"

\* C8 as stated: with no API key configured, get_weather and
\* get_weather_forecast never issue an HTTP request, every call returns a
\* mapping tagged "simulated", and a mapping tagged "success" is only ever
\* produced after an HTTP request made with a configured key.
C8_AsStated ==
    /\ (KeyNotConfigured
          /\ (Entered("get_weather") \/ Entered("get_weather_forecast")))
       => /\ http_requests = <<>>
          /\ result.kind = "returned"
          /\ result.value.status = "simulated"
    /\ (result.kind = "returned" /\ result.value.status = "success"
          /\ (Entered("get_weather") \/ Entered("get_weather_forecast")))
       => /\ ~KeyNotConfigured
          /\ Len(http_requests) >= 1
          /\ \A i \in DOMAIN http_requests : http_requests[i].appid = OWM_API_KEY

\* the full timezone name the table gives for an abbreviation
ExpectedZone(abbr) ==
    CASE abbr = <<"E","S","T">> -> US_Eastern
      [] abbr = <<"P","S","T">> -> US_Pacific
      [] abbr = <<"C","S","T">> -> US_Central
      [] abbr = <<"M","S","T">> -> US_Mountain
      [] abbr = <<"G","M","T">> -> <<"G","M","T">>
      [] abbr = <<"U","T","C">> -> <<"U","T","C">>
      [] abbr = <<"J","S","T">> -> Asia_Tokyo
      [] abbr = <<"C","E","T">> -> Europe_Paris
      [] abbr = <<"B","S","T">> -> Europe_London

TableAbbreviations ==
    {<<"E","S","T">>, <<"P","S","T">>, <<"C","S","T">>, <<"M","S","T">>,
     <<"G","M","T">>, <<"U","T","C">>, <<"J","S","T">>, <<"C","E","T">>,
     <<"B","S","T">>}

\* the abbreviation chars spells in some letter case, if any
SpelledAbbreviations(chars) ==
    {a \in TableAbbreviations :
        /\ Len(chars) = Len(a)
        /\ \A i \in DOMAIN a : chars[i] = a[i] \/ chars[i] = LowerChar(a[i])}

\* C9: for every abbreviation of the mapping table, in any letter case,
\* get_current_time returns status "success" with the timezone field equal
\* to the table's full timezone name, not the abbreviation.
C9_AbbreviationResolved ==
    (Entered("get_current_time") /\ timezone_of(call.args).isStr)
    => \A a \in SpelledAbbreviations(timezone_of(call.args).chars) :
          /\ result.kind = "returned"
          /\ result.value.status = "success"
          /\ result.value.timezone = [isStr |-> TRUE, chars |-> ExpectedZone(a)]

C9_Witness ==
    /\ call.fn = "get_current_time"
    /\ call.args.timezone = [isStr |-> TRUE, chars |-> <<"j","S","t">>]
    /\ result.kind = "returned"
    /\ result.value.status = "success"
    /\ result.value.timezone.chars = Asia_Tokyo

\* the input of get_current_time is neither a table abbreviation (in any
\* letter case) nor a name the timezone database knows
UnknownTimezoneInput(tz) ==
    ~tz.isStr \/ (SpelledAbbreviations(tz.chars) = {} /\ ~pytz_timezone_ok(tz.chars))

\* C10 as stated: for every input that is neither a table abbreviation nor a
\* name known to the timezone database, get_current_time does not raise and
\* returns status "error", the input echoed in the timezone field, and a
\* non-empty available_timezones_sample list.
C10_AsStated ==
    (Entered("get_current_time") /\ UnknownTimezoneInput(timezone_of(call.args)))
    => /\ result.kind = "returned"
       /\ result.value.status = "error"
       /\ result.value.timezone = timezone_of(call.args)
       /\ "available_timezones_sample" \in DOMAIN result.value
       /\ Len(result.value.available_timezones_sample) >= 1

\* C10 (amended): for every such input get_current_time does not raise and
\* returns status "error" with the input echoed in the timezone field; the
\* non-empty available_timezones_sample list is present when the input is a
\* string, and absent when it is not a string (null, a number).
C10_UnknownTimezoneIsError ==
    (Entered("get_current_time") /\ UnknownTimezoneInput(timezone_of(call.args)))
    => /\ result.kind = "returned"
       /\ result.value.status = "error"
       /\ result.value.timezone = timezone_of(call.args)
       /\ IF timezone_of(call.args).isStr
          THEN /\ "available_timezones_sample" \in DOMAIN result.value
               /\ Len(result.value.available_timezones_sample) >= 1
          ELSE "available_timezones_sample" \notin DOMAIN result.value

C10_Witness ==
    /\ call.fn = "get_current_time"
    /\ call.args.timezone.isStr
    /\ Str(call.args.timezone.chars) = "Mars/Phobos"
    /\ result.kind = "returned"
    /\ result.value.status = "error"
    /\ result.value.error = "Unknown timezone: Mars/Phobos"
    /\ Len(result.value.available_timezones_sample) = 4

-----------------------------------------------------------------------------
(* The conversation turn: assistant_with_tools of testing_kp.py, of       *)
(* gpt_oss_ollama_weather.py and of gpt_oss_local_demo.py, and            *)
(* process_with_tools of gpt_oss_weather_demo.py                          *)

TurnScripts == {"testing_kp", "ollama", "local_demo"}

UserMessages == {"What's the weather like in Tokyo right now?"}

\* the tool calls a response may list: name, whether function.arguments is
\* valid JSON, and the mapping it decodes to
ToolCallInputs ==
    {[name |-> "get_weather", valid |-> TRUE,
      args |-> [NoArgs EXCEPT !.keys = {"location"}, !.location = "Tokyo"]],
     [name |-> "get_weather", valid |-> TRUE,
      args |-> [NoArgs EXCEPT !.keys = {"unit"}, !.unit = "fahrenheit"]],
     [name |-> "get_weather", valid |-> FALSE, args |-> NoArgs],
     [name |-> "get_current_time", valid |-> TRUE,
      args |-> [NoArgs EXCEPT !.keys = {"timezone"},
                              !.timezone = StrVal(<<"e","s","t">>)]],
     [name |-> "get_current_time", valid |-> TRUE,
      args |-> [NoArgs EXCEPT !.keys = {"timezone", "city"},
                              !.timezone = StrVal(UTC)]],
     [name |-> "get_weather_forecast", valid |-> TRUE,
      args |-> [NoArgs EXCEPT !.keys = {"location", "days"},
                              !.location = "Paris", !.days = IntVal(2)]],
     [name |-> "get_weather_forecast", valid |-> TRUE,
      args |-> [NoArgs EXCEPT !.keys = {"location", "days"},
                              !.location = "Paris", !.days = NotAnInt]],
     [name |-> "get_stock_price", valid |-> TRUE,
      args |-> [NoArgs EXCEPT !.keys = {"location"}, !.location = "Tokyo"]],
     [name |-> "draft_email", valid |-> TRUE,
      args |-> [NoArgs EXCEPT !.keys = {"recipient", "subject", "content"},
                              !.recipient = "ann@example.com",
                              !.subject = "Hello",
                              !.content = StrVal(<<" ", "H", "i", "\n">>)]],
     [name |-> "open_email_client", valid |-> TRUE,
      args |-> [NoArgs EXCEPT !.keys = {"recipient", "subject", "content", "cc"},
                              !.recipient = "ann@example.com",
                              !.subject = "Hello",
                              !.content = StrVal(<<"H", "i">>),
                              !.cc = "bob@example.com"]],
     [name |-> "open_email_client", valid |-> TRUE,
      args |-> [NoArgs EXCEPT !.keys = {"recipient", "subject"},
                              !.recipient = "ann@example.com",
                              !.subject = "Hello"]],
     [name |-> "get_system_info", valid |-> TRUE, args |-> NoArgs]}

RECURSIVE ToolCallLists(_)
\* the lists of n tool calls; the k-th call has id "call_k"
ToolCallLists(n) ==
    IF n = 0 THEN {<<>>}
    ELSE {Append(l, [id |-> "call_" \o ToString(n), name |-> c.name,
                     valid |-> c.valid, args |-> c.args]) :
            l \in ToolCallLists(n - 1), c \in ToolCallInputs}

\* choices[0].message of a completion: content (None or text) and tool_calls
FirstResponses ==
    [content : {PyNone, "It is sunny."},
     tool_calls : UNION {ToolCallLists(n) : n \in 0..MaxToolCalls}]

SecondResponses ==
    [content : {PyNone, "Tokyo: 21 degrees."},
     tool_calls : ToolCallLists(0) \cup
                  {l \in ToolCallLists(1) : l[1].name = "get_weather" /\ l[1].valid}]

\* what the environment may give the tool calls of a turn
TurnInputs ==
    [draws |-> {[temp |-> 21, conditions |-> "sunny", humidity |-> 55]},
     wreplies |-> {r \in WeatherReplies :
                     r.outcome = "http_error" \/ r.data.name = "Tokyo"},
     freplies |-> {r \in ForecastReplies :
                     \/ r.outcome = "missing_field"
                     \/ r.outcome = "ok" /\ r.list = Upstream(15, 8)},
     opens |-> OpenOutcomes]

\* the system message of each script: the first sentence of its content (the
\* guidelines that follow it are left out)
system_message(s) ==
    [role |-> "system",
     content |-> CASE s = "testing_kp" ->
                        "You are a helpful weather and time assistant with access to real-time weather data and timezone information."
                   [] s = "ollama" ->
                        "You are a helpful weather and time assistant powered by GPT OSS running locally via Ollama."
                   [] OTHER ->
                        "You are a helpful local AI assistant powered by GPT-OSS running via Ollama."]

user_message_of(text) == [role |-> "user", content |-> text]

\* the message object of a response, as messages.append(response_message)
\* keeps it
assistant_message(response) ==
    [role |-> "assistant", content |-> response.content,
     tool_calls |-> response.tool_calls]

\* the dict appended for a tool result; content stands for
\* json.dumps(function_response), the mapping it encodes
tool_message(tool_call, function_response) ==
    [role |-> "tool", tool_call_id |-> tool_call.id, name |-> tool_call.name,
     content |-> function_response]

\* a chat.completions.create call: the messages sent, and whether the tool
\* schema (tools=tools, tool_choice="auto") is attached
completion_request(msgs, with_tools) == [messages |-> msgs, tools |-> with_tools]

\* the error marker the scripts print: the cross-mark sign, written [x] here
ErrorMarker == "[x] Error:"

\* the handler returning the exception's text alone
error_text_unmarked(s, exc) == exc

\* the string the turn's `except Exception as e` returns
error_text(s, exc) ==
    ErrorMarker \o " " \o exc \o
    (IF s = "testing_kp"
     THEN ". Please check your API keys and internet connection."
     ELSE ". Please check that Ollama is running and the model is available.")

\* the check dropped: the tool branch is taken whatever the response lists
wants_tools_always(response_message) == TRUE

\* `if response_message.tool_calls:`
wants_tools(response_message) == response_message.tool_calls # <<>>

\* the loop running over the list back to front
loop_item_reversed(calls, i) == calls[Len(calls) + 1 - i]

\* `for tool_call in response_message.tool_calls`: the item of iteration i
loop_item(calls, i) == calls[i]

\* the if / elif chain on function_name: function_response stays None for a
\* name that matches no branch
function_response_of(function_name, function_args, env) ==
    IF function_name \in RegisteredToolsOf(env.script)
    THEN call_tool(function_name, function_args, env)
    ELSE NoResult

\* `if function_response: messages.append({...})`: a returned mapping is
\* never empty, None is falsy
append_tool_result(msgs, tool_call, response) ==
    IF response.kind = "returned"
    THEN Append(msgs, tool_message(tool_call, response.value))
    ELSE msgs

\* the first chat.completions.create raises
FirstRequestFails ==
    /\ pc = "idle"
    /\ call = NoCall
    /\ \E s \in TurnScripts, text \in UserMessages :
        LET msgs == <<system_message(s), user_message_of(text)>> IN
        /\ turn_script' = s
        /\ messages' = msgs
        /\ requests' = <<completion_request(msgs, TRUE)>>
        /\ ret' = error_text(s, "Connection error.")
    /\ tool_calls' = <<>>
    /\ idx' = 0
    /\ executed' = <<>>
    /\ turn_http' = 0
    /\ second_calls' = <<>>
    /\ pc' = "done"
    /\ UNCHANGED <<OWM_API_KEY, deployVars, clientVars, toolVars>>

\* the first chat.completions.create answers
FirstResponse ==
    /\ pc = "idle"
    /\ call = NoCall
    /\ \E s \in TurnScripts, text \in UserMessages, response \in FirstResponses :
        LET msgs == <<system_message(s), user_message_of(text)>>
            response_message == assistant_message(response) IN
        /\ turn_script' = s
        /\ requests' = <<completion_request(msgs, TRUE)>>
        /\ messages' = Append(msgs, response_message)
        /\ tool_calls' = response.tool_calls
        /\ IF wants_tools(response_message)
           THEN \* the loop, then the second request; no item, no iteration
                /\ pc' = IF response.tool_calls = <<>> THEN "second" ELSE "tools"
                /\ idx' = 1
                /\ ret' = PyNone
           ELSE /\ pc' = "done"
                /\ idx' = 0
                /\ ret' = response_message.content
    /\ executed' = <<>>
    /\ turn_http' = 0
    /\ second_calls' = <<>>
    /\ UNCHANGED <<OWM_API_KEY, deployVars, clientVars, toolVars>>

\* one iteration of the loop over the tool calls
ProcessToolCall ==
    /\ pc = "tools"
    /\ idx <= Len(tool_calls)
    /\ LET tool_call == loop_item(tool_calls, idx) IN
       IF ~tool_call.valid
       THEN \* json.loads raises: the turn's handler returns
            /\ pc' = "done"
            /\ ret' = error_text(turn_script, "Expecting value")
            /\ UNCHANGED <<messages, idx, executed, turn_http>>
       ELSE \E env \in Envs(turn_script, OWM_API_KEY, tool_call.name,
                            tool_call.args, TurnInputs) :
            LET function_response ==
                    function_response_of(tool_call.name, tool_call.args, env) IN
            /\ executed' = IF tool_invoked(RegisteredToolsOf(turn_script),
                                           tool_call.name, tool_call.args) # <<>>
                           THEN Append(executed, tool_call.id) ELSE executed
            /\ turn_http' = turn_http
                  + Len(tool_requests(RegisteredToolsOf(turn_script),
                                      tool_call.name, tool_call.args, OWM_API_KEY))
            /\ IF function_response.kind = "raised"
               THEN /\ pc' = "done"
                    /\ ret' = error_text(turn_script, function_response.exc)
                    /\ UNCHANGED <<messages, idx>>
               ELSE /\ messages' = append_tool_result(messages, tool_call,
                                                      function_response)
                    /\ idx' = idx + 1
                    /\ pc' = IF idx = Len(tool_calls) THEN "second" ELSE "tools"
                    /\ ret' = ret
    /\ UNCHANGED <<OWM_API_KEY, deployVars, clientVars, toolVars, turn_script, tool_calls, requests,
                   second_calls>>

\* the second chat.completions.create raises
SecondRequestFails ==
    /\ pc = "second"
    /\ requests' = Append(requests, completion_request(messages, FALSE))
    /\ ret' = error_text(turn_script, "Connection error.")
    /\ pc' = "done"
    /\ UNCHANGED <<OWM_API_KEY, deployVars, clientVars, toolVars, turn_script, messages, tool_calls, idx,
                   executed, turn_http, second_calls>>

\* the second chat.completions.create answers: its content is returned
SecondResponse ==
    /\ pc = "second"
    /\ \E response \in SecondResponses :
        /\ requests' = Append(requests, completion_request(messages, FALSE))
        /\ second_calls' = response.tool_calls
        /\ ret' = response.content
    /\ pc' = "done"
    /\ UNCHANGED <<OWM_API_KEY, deployVars, clientVars, toolVars, turn_script, messages, tool_calls, idx,
                   executed, turn_http>>

\* assistant_with_tools has returned to main's loop: its locals are gone
TurnReturns ==
    /\ pc = "done"
    /\ pc' = "idle"
    /\ turn_script' = "none"
    /\ messages' = <<>>
    /\ tool_calls' = <<>>
    /\ idx' = 0
    /\ requests' = <<>>
    /\ executed' = <<>>
    /\ turn_http' = 0
    /\ second_calls' = <<>>
    /\ ret' = PyNone
    /\ UNCHANGED <<OWM_API_KEY, deployVars, clientVars, toolVars>>

\* what the local pipeline of gpt_oss_weather_demo.py may generate: the text
\* and the tool calls written in it (none, or a call of a registered tool)
GeneratedTexts ==
    {[text |-> "It is sunny.", tool_calls |-> <<>>]} \cup
    {[text |-> c.name \o " " \o c.args.location, tool_calls |-> <<c>>] :
        c \in {l[1] : l \in {k \in ToolCallLists(1) :
                               /\ k[1].name \in {"get_weather", "get_weather_forecast"}
                               /\ k[1].valid
                               /\ "location" \in k[1].args.keys}}}

\* the chat_messages of process_with_tools
chat_messages(text) ==
    <<[role |-> "system",
       content |-> "You are a helpful weather and time assistant with access to real-time weather data and timezone information."],
      user_message_of(text)>>

\* process_with_tools of gpt_oss_weather_demo.py, whole: one generation; a
\* tool name found in the text is reported on the console only, and the text
\* is returned as it is; an exception of the pipeline is returned as a string
ProcessWithTools ==
    /\ pc = "idle"
    /\ call = NoCall
    /\ \E text \in UserMessages, raised \in BOOLEAN, generated \in GeneratedTexts :
        /\ messages' = chat_messages(text)
        /\ requests' = <<completion_request(chat_messages(text), FALSE)>>
        /\ tool_calls' = IF raised THEN <<>> ELSE generated.tool_calls
        /\ ret' = IF raised
                  THEN "[x] Error processing request: CUDA out of memory"
                  ELSE generated.text
    /\ turn_script' = "weather_demo"
    /\ idx' = 0
    /\ executed' = <<>>
    /\ turn_http' = 0
    /\ second_calls' = <<>>
    /\ pc' = "done"
    /\ UNCHANGED <<OWM_API_KEY, deployVars, clientVars, toolVars>>

Next ==
    \/ FirstRequestFails
    \/ FirstResponse
    \/ ProcessToolCall
    \/ SecondRequestFails
    \/ SecondResponse
    \/ ProcessWithTools
    \/ TurnReturns

Spec == Init /\ [][Next]_vars

-----------------------------------------------------------------------------
(* Properties of the conversation turn (Spec) *)

\* the tool-result messages of a message list, in order
ToolMessages(msgs) == SelectSeq(msgs, LAMBDA m : m.role = "tool")

\* the place of the tool call with this id in the first response's list
PositionOf(id) == CHOOSE k \in DOMAIN tool_calls : tool_calls[k].id = id

\* the first response has arrived (its message is the third of the list)
FirstResponseArrived == Len(messages) >= 3 /\ messages[3].role = "assistant"

\* C2 as stated: when the first response lists n >= 1 tool calls, the message
\* list sent in the second request contains exactly n tool-result messages,
\* the k-th carrying the k-th call's id as tool_call_id and its name, also
\* for a call whose name is no registered tool.
C2_AsStated ==
    (Len(requests) = 2 /\ Len(tool_calls) >= 1)
    => LET results == ToolMessages(requests[2].messages) IN
       /\ Len(results) = Len(tool_calls)
       /\ \A k \in DOMAIN tool_calls :
            /\ results[k].tool_call_id = tool_calls[k].id
            /\ results[k].name = tool_calls[k].name

\* C3: the tool calls of the first response are executed one at a time in
\* the order the response lists them, their tool-result messages appear in
\* the message list in that order, all after the assistant message that
\* requested them and all before the second request is sent.
C3_ToolCallsInListedOrder ==
    LET results == {i \in DOMAIN messages : messages[i].role = "tool"} IN
    /\ \A i, j \in DOMAIN executed :
          i < j => PositionOf(executed[i]) < PositionOf(executed[j])
    /\ pc = "tools" => \A i \in DOMAIN executed : PositionOf(executed[i]) < idx
    /\ \A i \in results :
          /\ i > 3
          /\ messages[3].role = "assistant"
          /\ messages[3].tool_calls = tool_calls
          /\ \E k \in DOMAIN executed : executed[k] = messages[i].tool_call_id
    /\ \A i, j \in results :
          i < j => PositionOf(messages[i].tool_call_id)
                     < PositionOf(messages[j].tool_call_id)
    /\ Len(requests) >= 1 => ToolMessages(requests[1].messages) = <<>>
    /\ Len(requests) = 2
          => /\ requests[2].messages = messages
             /\ idx = Len(tool_calls) + 1
             /\ pc = "done"

C3_Witness ==
    /\ Len(requests) = 2
    /\ Len(tool_calls) = 2
    /\ executed = <<"call_1", "call_2">>
    /\ Len(messages) = 5
    /\ messages[4].tool_call_id = "call_1"
    /\ messages[4].name = "get_current_time"
    /\ messages[5].tool_call_id = "call_2"
    /\ messages[5].name = "get_weather"

\* C4: if the first response carries zero tool calls, that response is
\* terminal: exactly one completion request is sent, with the tool schema
\* attached, no tool function is executed, no second request is sent, and
\* the turn returns the content of the first response.
C4_NoToolCallsIsTerminal ==
    (FirstResponseArrived /\ messages[3].tool_calls = <<>>)
    => /\ pc = "done"
       /\ Len(requests) = 1
       /\ requests[1].tools = TRUE
       /\ executed = <<>>
       /\ turn_http = 0
       /\ Len(messages) = 3
       /\ ret = messages[3].content

C4_Witness ==
    /\ FirstResponseArrived
    /\ messages[3].tool_calls = <<>>
    /\ messages[3].content = "It is sunny."
    /\ ret = "It is sunny."
    /\ pc = "done"

\* C5 as stated: a turn sends at most two completion requests; when the
\* first response lists one or more tool calls, exactly one second request
\* is sent, only after all listed calls were processed; it carries no tool
\* schema, and tool calls of the second response are never executed and
\* cause no third request.
C5_AsStated ==
    /\ Len(requests) <= 2
    /\ (pc = "done" /\ FirstResponseArrived /\ tool_calls # <<>>)
       => /\ Len(requests) = 2
          /\ requests[1].tools = TRUE
          /\ requests[2].tools = FALSE
          /\ idx = Len(tool_calls) + 1
    /\ second_calls # <<>>
       => /\ pc = "done"
          /\ Len(requests) = 2
          /\ \A k \in DOMAIN executed :
                \E i \in DOMAIN tool_calls : tool_calls[i].id = executed[k]

\* the arguments do not fit the tool function: an unexpected keyword, a
\* missing required argument, or a wrongly typed value
ArgumentsMisfit(name, args) ==
    \/ ~(args.keys \subseteq Params(name))
    \/ ~(Required(name) \subseteq args.keys)
    \/ name = "get_current_time" /\ "timezone" \in args.keys /\ ~args.timezone.isStr
    \/ name = "get_weather_forecast" /\ "days" \in args.keys /\ ~args.days.isInt

\* C6 as stated: when the model-supplied arguments of a known tool do not
\* fit the tool function, the local error is caught and tool dispatch yields
\* a mapping with status "error", rather than the error escaping dispatch.
C6_AsStated ==
    (call.fn = "execute_tool_call"
       /\ call.tool_name \in {"get_weather", "get_current_time",
                              "get_weather_forecast"}
       /\ ArgumentsMisfit(call.tool_name, call.args))
    => /\ result.kind = "returned"
       /\ result.value.status = "error"

-----------------------------------------------------------------------------
(* Properties of get_weather_forecast (SpecTools) *)

\* the last call entered get_weather_forecast and returned a forecasts list
ForecastsReturned ==
    /\ Entered("get_weather_forecast")
    /\ result.kind = "returned"
    /\ "forecasts" \in DOMAIN result.value

\* C11 as stated: for every integer days (0, negative values and values
\* above 5 included) get_weather_forecast clamps days into [1,5]: the
\* forecasts list never has more than min(max(days,1),5) entries, in the
\* simulated path and in the real-data path of every implementation.
C11_AsStated ==
    (ForecastsReturned /\ days_of(call.args).isInt)
    => Len(result.value.forecasts) <= Min(Max(days_of(call.args).n, 1), 5)

\* C12: in every forecasts list returned by get_weather_forecast (simulated
\* or real data, any upstream list of 3-hourly entries) no two entries have
\* the same calendar date.
C12_OneEntryPerDate ==
    ForecastsReturned
    => \A i, j \in DOMAIN result.value.forecasts :
          i # j => result.value.forecasts[i].date # result.value.forecasts[j].date

\* a real-data call of the noon-first implementation whose upstream list has
\* several entries from noon on for the same date
C12_Witness ==
    /\ call.fn = "get_weather_forecast"
    /\ call.script = "ollama"
    /\ OWM_API_KEY = "live-key"
    /\ call.args.days = [isInt |-> TRUE, n |-> 2]
    /\ result.kind = "returned"
    /\ result.value.status = "success"
    /\ result.value.forecasts = <<[date |-> 0, hour |-> 12], [date |-> 1, hour |-> 12]>>

-----------------------------------------------------------------------------
(* Properties of the calls made with an API key (SpecTools) *)

WeatherCall == Entered("get_weather") \/ Entered("get_weather_forecast")

\* the weather source failed: the network, the HTTP status, or a reply that
\* lacks an expected field
SourceFailed ==
    call.reply \in {"connection_error", "http_error", "missing_field", "bad_body"}

\* the mapping returned is an error mapping naming the requested location
ErrorForRequestedLocation ==
    /\ result.kind = "returned"
    /\ result.value.status = "error"
    /\ result.value.location = call.args.location
    /\ result.value.error # ""

-----------------------------------------------------------------------------
(* Properties of every tool result (SpecTools) *)

\* C14 as stated: every mapping returned by a registered tool function, on
\* any path, carries a status tag whose value is one of "success",
\* "simulated" or "error".
C14_AsStated ==
    result.kind = "returned"
    => /\ "status" \in DOMAIN result.value
       /\ result.value.status \in {"success", "simulated", "error"}

\* C14 (amended): every mapping returned by a registered tool function
\* carries a status tag; its value is one of "success", "simulated" or
\* "error" for the weather, time and system-information tools, and for the
\* email tools it is "drafted" (draft_email) or "email_client_opened"
\* (open_email_client) when they succeed and "error" when they fail.
C14_StatusTag ==
    result.kind = "returned"
    => /\ "status" \in DOMAIN result.value
       /\ result.value.status \in
            {"success", "simulated", "error", "drafted", "email_client_opened"}
       /\ result.value.status = "drafted" <=>
            (call.fn = "draft_email" /\ call.args.content.isStr)
       /\ result.value.status = "email_client_opened" <=>
            (call.fn = "open_email_client" /\ call.reply = "opened")
       /\ call.fn = "get_system_info" => result.value.status = "success"

C14_Witness ==
    /\ call.fn = "draft_email"
    /\ call.args.content = [isStr |-> TRUE, chars |-> <<" ", "H", "i", "\n">>]
    /\ result.kind = "returned"
    /\ result.value.status = "drafted"
    /\ result.value.content.chars = <<"H", "i">>

-----------------------------------------------------------------------------
(* Properties of the weather turn end to end (Spec) *)

\* a finished turn of a weather script, no API key set, whose first response
\* requested get_weather for the user's question about Tokyo
WeatherRequestedWithoutKey ==
    /\ pc = "done"
    /\ turn_script \in {"testing_kp", "ollama"}
    /\ KeyNotConfigured
    /\ FirstResponseArrived
    /\ messages[2].content = "What's the weather like in Tokyo right now?"
    /\ \E k \in DOMAIN tool_calls : tool_calls[k].name = "get_weather"

\* C15 as stated: end to end with no API key set, whenever the model's first
\* response requests get_weather, the second completion request contains a
\* tool-result message whose content has status "simulated", and the text
\* the turn returns is the content of the response to that second request.
C15_AsStated ==
    WeatherRequestedWithoutKey
    => /\ Len(requests) = 2
       /\ \E i \in DOMAIN requests[2].messages :
            /\ requests[2].messages[i].role = "tool"
            /\ requests[2].messages[i].name = "get_weather"
            /\ requests[2].messages[i].content.status = "simulated"
       /\ ret \in {r.content : r \in SecondResponses}

-----------------------------------------------------------------------------
(* deploy_aws_ec2.py: provisioning on AWS EC2 *)

\* at most MaxDeployRuns runs of the deployment scripts are started
MaxDeployRuns == 2

\* f"{value}" of a string or of None
Format(v) == IF v = PyNone THEN "None" ELSE v

\* the public address EC2 assigns to the n-th instance of the account
AwsAddress(n) == "203.0.113." \o ToString(n)

\* how the API calls of a step can end
KeyPairOutcomes == {"ok", "describe_failed", "create_failed"}
SecurityGroupOutcomes == {"ok", "describe_failed", "create_failed", "authorize_failed"}
LaunchOutcomes == {"ok", "run_instances_failed"}
WaitOutcomes == {"ok", "waiter_failed", "describe_failed"}

\* mutant of reraise: the handler prints the error and goes on
reraise_swallowed(error) == FALSE

\* `except Exception as e: print(...); raise` around the body of every step:
\* the step raises exactly when its body did
reraise(error) == error # "none"

\* what a step of the deployer gives back: the account and the files after
\* it, the exception its body ended with ("none" if it completed), whether
\* the step raised, and its return value
StepResult(c, fs, error, value) ==
    [cloud |-> c, files |-> fs, error |-> error, raised |-> reraise(error),
     value |-> value]

create_key_pair(c, fs, outcome) ==
    IF outcome = "describe_failed" THEN StepResult(c, fs, "ClientError", PyNone)
    ELSE IF c.aws.key_pairs > 0 THEN StepResult(c, fs, "none", PyNone)
    ELSE IF outcome = "create_failed" THEN StepResult(c, fs, "ClientError", PyNone)
    ELSE StepResult([c EXCEPT !.aws.key_pairs = @ + 1],
                    [fs EXCEPT !.pem = [exists |-> TRUE, text |-> <<>>]],
                    "none", PyNone)

\* a security group is created first and given its ingress rules (TCP 22 and
\* 8000) by a second API call
create_security_group(c, fs, outcome) ==
    LET groups == c.aws.security_groups
        sg_id == "sg-" \o ToString(Len(groups) + 1)
        created(rules) ==
            [c EXCEPT !.aws.security_groups =
                          Append(groups, [id |-> sg_id, rules |-> rules])]
    IN  IF outcome = "describe_failed" THEN StepResult(c, fs, "ClientError", PyNone)
        ELSE IF groups # <<>> THEN StepResult(c, fs, "none", groups[1].id)
        ELSE IF outcome = "create_failed" THEN StepResult(c, fs, "ClientError", PyNone)
        ELSE IF outcome = "authorize_failed"
             THEN StepResult(created(FALSE), fs, "ClientError", PyNone)
        ELSE StepResult(created(TRUE), fs, "none", sg_id)

launch_instance(c, fs, security_group_id, outcome) ==
    LET instances == c.aws.instances
        instance_id == "i-" \o ToString(Len(instances) + 1)
    IN  IF outcome = "run_instances_failed"
        THEN StepResult(c, fs, "ClientError", PyNone)
        ELSE StepResult(
                 [c EXCEPT !.aws.instances =
                     Append(instances,
                            [id |-> instance_id, security_group |-> security_group_id,
                             state |-> "pending", public_ip |-> PyNone])],
                 fs, "none", instance_id)

\* the index of the instance with the given id
InstanceIndex(c, instance_id) ==
    CHOOSE n \in DOMAIN c.aws.instances : c.aws.instances[n].id = instance_id

\* the instance reaches the running state with or without a public address
\* (a subnet need not assign one); instance.get('PublicIpAddress') is None
\* in the latter case
wait_for_instance(c, fs, instance_id, outcome, has_address) ==
    IF \A n \in DOMAIN c.aws.instances : c.aws.instances[n].id # instance_id
    THEN StepResult(c, fs, "ClientError", PyNone)
    ELSE
    LET n == InstanceIndex(c, instance_id)
        public_ip == IF has_address THEN AwsAddress(n) ELSE PyNone
        running == [c EXCEPT !.aws.instances[n].state = "running",
                             !.aws.instances[n].public_ip = public_ip]
    IN  IF outcome = "waiter_failed" THEN StepResult(c, fs, "WaiterError", PyNone)
        ELSE IF outcome = "describe_failed"
             THEN StepResult(running, fs, "ClientError", PyNone)
        ELSE StepResult(running, fs, "none", public_ip)

\* the mapping deploy returns
aws_deployment_info(instance_id, public_ip) ==
    [instance_id |-> instance_id,
     public_ip |-> public_ip,
     api_endpoint |-> "http://" \o Format(public_ip) \o ":8000",
     ssh_command |-> "ssh -i gpt-oss-key.pem ec2-user@" \o Format(public_ip)]

\* json.dump of a mapping of strings and None: every value becomes a JSON
\* token, a string literal or null
json_dump(mapping) ==
    [k \in DOMAIN mapping |->
        IF mapping[k] = PyNone THEN [token |-> "null", chars |-> ""]
        ELSE [token |-> "string", chars |-> mapping[k]]]

\* json.load of such a document
json_load(text) ==
    [k \in DOMAIN text |->
        IF text[k].token = "null" THEN PyNone ELSE text[k].chars]

\* a step of a run is logged with the exception its body ended with
Logged(d, step, r) == [d EXCEPT !.steps = Append(@, [name |-> step, error |-> r.error])]

\* the run after a step: on to the next step, or out of deploy and main with
\* the exception
After(d, step, r, next) ==
    IF r.raised
    THEN [Logged(d, step, r) EXCEPT !.pc = "exited", !.exit = "raised"]
    ELSE [Logged(d, step, r) EXCEPT !.pc = next]

\* main of a deployment script up to the call of deploy: the credentials
\* check ends the run without an exception when it fails
Started(platform, first, credentials_ok) ==
    [NoDeploy EXCEPT !.platform = platform,
                     !.pc = IF credentials_ok THEN first ELSE "exited",
                     !.exit = IF credentials_ok THEN "none" ELSE "returned"]

AwsMain ==
    /\ dep.pc = "idle"
    /\ client.pc = "idle"
    /\ runs < MaxDeployRuns
    /\ \E credentials_ok \in BOOLEAN :
         dep' = [Started("aws", "create_key_pair", credentials_ok)
                    EXCEPT !.before = [cloud |-> cloud, files |-> files]]
    /\ runs' = runs + 1
    /\ UNCHANGED <<OWM_API_KEY, toolVars, turnVars, clientVars, cloud, files, deployed>>

AwsCreateKeyPair ==
    /\ dep.platform = "aws"
    /\ dep.pc = "create_key_pair"
    /\ \E outcome \in KeyPairOutcomes :
         LET r == create_key_pair(cloud, files, outcome)
         IN  /\ cloud' = r.cloud
             /\ files' = r.files
             /\ dep' = After(dep, "create_key_pair", r, "create_security_group")
    /\ UNCHANGED <<OWM_API_KEY, toolVars, turnVars, clientVars, deployed, runs>>

AwsCreateSecurityGroup ==
    /\ dep.platform = "aws"
    /\ dep.pc = "create_security_group"
    /\ \E outcome \in SecurityGroupOutcomes :
         LET r == create_security_group(cloud, files, outcome)
         IN  /\ cloud' = r.cloud
             /\ files' = r.files
             /\ dep' = [After(dep, "create_security_group", r, "launch_instance")
                           EXCEPT !.security_group_id = r.value]
    /\ UNCHANGED <<OWM_API_KEY, toolVars, turnVars, clientVars, deployed, runs>>

AwsLaunchInstance ==
    /\ dep.platform = "aws"
    /\ dep.pc = "launch_instance"
    /\ \E outcome \in LaunchOutcomes :
         LET r == launch_instance(cloud, files, dep.security_group_id, outcome)
         IN  /\ cloud' = r.cloud
             /\ files' = r.files
             /\ dep' = [After(dep, "launch_instance", r, "wait_for_instance")
                           EXCEPT !.instance_id = r.value]
    /\ UNCHANGED <<OWM_API_KEY, toolVars, turnVars, clientVars, deployed, runs>>

\* the last step of deploy: when it returns, deploy returns its mapping
AwsWaitForInstance ==
    /\ dep.platform = "aws"
    /\ dep.pc = "wait_for_instance"
    /\ \E outcome \in WaitOutcomes, has_address \in BOOLEAN :
         LET r == wait_for_instance(cloud, files, dep.instance_id, outcome, has_address)
         IN  /\ cloud' = r.cloud
             /\ files' = r.files
             /\ dep' = [After(dep, "wait_for_instance", r, "save")
                           EXCEPT !.public_ip = r.value]
             /\ deployed' =
                  IF r.raised THEN deployed
                  ELSE [deployed EXCEPT !.aws =
                           [returned |-> TRUE,
                            info |-> aws_deployment_info(dep.instance_id, r.value)]]
    /\ UNCHANGED <<OWM_API_KEY, toolVars, turnVars, clientVars, runs>>

\* main after deploy: the mapping is written to aws_deployment_info.json
AwsSaveInfo ==
    /\ dep.platform = "aws"
    /\ dep.pc = "save"
    /\ files' = [files EXCEPT !.aws = [exists |-> TRUE,
                                       text |-> json_dump(deployed.aws.info)]]
    /\ dep' = [dep EXCEPT !.pc = "exited", !.exit = "completed",
                          !.steps = Append(@, [name |-> "save", error |-> "none"])]
    /\ UNCHANGED <<OWM_API_KEY, toolVars, turnVars, clientVars, cloud, deployed, runs>>

\* the script's process is gone
DeployExit ==
    /\ dep.pc = "exited"
    /\ dep' = NoDeploy
    /\ UNCHANGED <<OWM_API_KEY, toolVars, turnVars, clientVars, cloud, files, deployed, runs>>

-----------------------------------------------------------------------------
(* deploy_azure_vm.py: provisioning on an Azure VM *)

\* the address of the public IP resource gpt-oss-public-ip (allocation
\* method Static: the address is assigned when the resource is created)
AzureAddress == "198.51.100.9"

\* create_or_update of a resource addressed by its fixed name
create_or_update(count) == IF count = 0 THEN 1 ELSE count

\* the network resources in another order: the interface before the
\* address it refers to
NetworkResources_interface_first ==
    <<"virtual_network", "subnet", "network_security_group", "network_interface",
      "public_ip">>

\* the resources create_network_resources makes, in the order of its calls
NetworkResources ==
    <<"virtual_network", "subnet", "network_security_group", "public_ip",
      "network_interface">>

ResourceGroupOutcomes == {"ok", "failed"}
NetworkOutcomes == {"ok"} \cup {NetworkResources[i] : i \in DOMAIN NetworkResources}
VmOutcomes == {"ok", "ssh_key_failed", "vm_failed"}
PublicIpOutcomes == {"ok", "failed"}

create_resource_group(c, fs, outcome) ==
    IF outcome = "failed" THEN StepResult(c, fs, "HttpResponseError", PyNone)
    ELSE StepResult([c EXCEPT !.azure.resource_group = create_or_update(@)],
                    fs, "none", PyNone)

\* the number of network resources made before the operation on failed_at
\* fails ("ok": none does)
network_made(failed_at) ==
    IF failed_at = "ok" THEN Len(NetworkResources)
    ELSE (CHOOSE i \in DOMAIN NetworkResources : NetworkResources[i] = failed_at) - 1

\* the operations create_network_resources begins, in their order: up to
\* and including the one that fails
network_calls(failed_at) ==
    SubSeq(NetworkResources, 1,
           Min(network_made(failed_at) + 1, Len(NetworkResources)))

\* failed_at names the resource whose operation fails ("ok": none does); the
\* resources before it have been created or updated by then
create_network_resources(c, fs, failed_at) ==
    LET made == network_made(failed_at)
        after == [c EXCEPT !.azure =
                     [name \in DOMAIN c.azure |->
                         IF \E i \in 1..made : NetworkResources[i] = name
                         THEN create_or_update(c.azure[name])
                         ELSE c.azure[name]]]
    IN  IF failed_at = "ok"
        THEN StepResult(after, fs, "none",
                        [nic_id |-> "gpt-oss-nic", public_ip_id |-> "gpt-oss-public-ip"])
        ELSE StepResult(after, fs, "HttpResponseError", PyNone)

\* get_ssh_public_key runs inside the try block of create_vm, before the
\* virtual machine is requested
create_vm(c, fs, nic_id, outcome) ==
    IF outcome = "ssh_key_failed" THEN StepResult(c, fs, "CalledProcessError", PyNone)
    ELSE IF outcome = "vm_failed" THEN StepResult(c, fs, "HttpResponseError", PyNone)
    ELSE StepResult([c EXCEPT !.azure.virtual_machine = create_or_update(@)],
                    fs, "none", "gpt-oss-vm")

get_public_ip(c, fs, outcome) ==
    IF outcome = "failed" \/ c.azure.public_ip = 0
    THEN StepResult(c, fs, "HttpResponseError", PyNone)
    ELSE StepResult(c, fs, "none", AzureAddress)

\* the mapping deploy returns
azure_deployment_info(vm_id, public_ip) ==
    [vm_id |-> vm_id,
     public_ip |-> public_ip,
     api_endpoint |-> "http://" \o Format(public_ip) \o ":8000",
     ssh_command |-> "ssh azureuser@" \o Format(public_ip),
     resource_group |-> "gpt-oss-rg"]

AzureMain ==
    /\ dep.pc = "idle"
    /\ client.pc = "idle"
    /\ runs < MaxDeployRuns
    /\ \E credentials_ok \in BOOLEAN :
         dep' = [Started("azure", "create_resource_group", credentials_ok)
                    EXCEPT !.before = [cloud |-> cloud, files |-> files]]
    /\ runs' = runs + 1
    /\ UNCHANGED <<OWM_API_KEY, toolVars, turnVars, clientVars, cloud, files, deployed>>

AzureCreateResourceGroup ==
    /\ dep.platform = "azure"
    /\ dep.pc = "create_resource_group"
    /\ \E outcome \in ResourceGroupOutcomes :
         LET r == create_resource_group(cloud, files, outcome)
         IN  /\ cloud' = r.cloud
             /\ files' = r.files
             /\ dep' = After(dep, "create_resource_group", r, "create_network_resources")
    /\ UNCHANGED <<OWM_API_KEY, toolVars, turnVars, clientVars, deployed, runs>>

AzureCreateNetworkResources ==
    /\ dep.platform = "azure"
    /\ dep.pc = "create_network_resources"
    /\ \E failed_at \in NetworkOutcomes :
         LET r == create_network_resources(cloud, files, failed_at)
         IN  /\ cloud' = r.cloud
             /\ files' = r.files
             /\ dep' = [After(dep, "create_network_resources", r, "create_vm")
                           EXCEPT !.nic_id = IF r.error = "none" THEN r.value.nic_id
                                             ELSE PyNone,
                                  !.network = network_calls(failed_at)]
    /\ UNCHANGED <<OWM_API_KEY, toolVars, turnVars, clientVars, deployed, runs>>

AzureCreateVm ==
    /\ dep.platform = "azure"
    /\ dep.pc = "create_vm"
    /\ \E outcome \in VmOutcomes :
         LET r == create_vm(cloud, files, dep.nic_id, outcome)
         IN  /\ cloud' = r.cloud
             /\ files' = r.files
             /\ dep' = [After(dep, "create_vm", r, "get_public_ip")
                           EXCEPT !.vm_id = r.value]
    /\ UNCHANGED <<OWM_API_KEY, toolVars, turnVars, clientVars, deployed, runs>>

\* the last step of deploy (after time.sleep(30)): when it returns, deploy
\* returns its mapping
AzureGetPublicIp ==
    /\ dep.platform = "azure"
    /\ dep.pc = "get_public_ip"
    /\ \E outcome \in PublicIpOutcomes :
         LET r == get_public_ip(cloud, files, outcome)
         IN  /\ cloud' = r.cloud
             /\ files' = r.files
             /\ dep' = [After(dep, "get_public_ip", r, "save")
                           EXCEPT !.public_ip = r.value]
             /\ deployed' =
                  IF r.raised THEN deployed
                  ELSE [deployed EXCEPT !.azure =
                           [returned |-> TRUE,
                            info |-> azure_deployment_info(dep.vm_id, r.value)]]
    /\ UNCHANGED <<OWM_API_KEY, toolVars, turnVars, clientVars, runs>>

\* main after deploy: the mapping is written to azure_deployment_info.json
AzureSaveInfo ==
    /\ dep.platform = "azure"
    /\ dep.pc = "save"
    /\ files' = [files EXCEPT !.azure = [exists |-> TRUE,
                                         text |-> json_dump(deployed.azure.info)]]
    /\ dep' = [dep EXCEPT !.pc = "exited", !.exit = "completed",
                          !.steps = Append(@, [name |-> "save", error |-> "none"])]
    /\ UNCHANGED <<OWM_API_KEY, toolVars, turnVars, clientVars, cloud, deployed, runs>>

-----------------------------------------------------------------------------
(* test_gpt_oss_client.py: the test client's main *)

EndpointArgs == {PyNone, "", "http://localhost:8000"}
PlatformArgs == {PyNone, "aws", "azure"}

\* truth value of an optional string
Truthy(v) == v # PyNone /\ v # ""

\* the empty mapping {}
EmptyMapping == <<>>

\* mutant of load_deployment_info: the platform is not part of the file name
load_deployment_info_ignores_platform(fs, platform) ==
    IF fs["aws"].exists THEN json_load(fs["aws"].text) ELSE EmptyMapping

\* reads f"{platform}_deployment_info.json" when it exists
load_deployment_info(fs, platform) ==
    IF fs[platform].exists THEN json_load(fs[platform].text) ELSE EmptyMapping

\* `deployment_info and "api_endpoint" in deployment_info`
has_endpoint(deployment_info) ==
    /\ DOMAIN deployment_info # {}
    /\ "api_endpoint" \in DOMAIN deployment_info

\* what main has after "Determine endpoint": the endpoint, the platforms
\* whose files were loaded, the mapping the endpoint was taken from, and
\* whether main goes on to create the client
Selected(endpoint, read, loaded, proceeds) ==
    [endpoint |-> endpoint, read |-> read, loaded |-> loaded, proceeds |-> proceeds]

\* the loop of the auto-detection running over azure first
auto_detect_azure_first(fs) ==
    LET aws == load_deployment_info(fs, "aws")
        azure == load_deployment_info(fs, "azure")
    IN  IF has_endpoint(azure)
        THEN Selected(azure.api_endpoint, <<"azure">>, azure, Truthy(azure.api_endpoint))
        ELSE IF has_endpoint(aws)
        THEN Selected(aws.api_endpoint, <<"azure", "aws">>, aws, Truthy(aws.api_endpoint))
        ELSE Selected(PyNone, <<"azure", "aws">>, aws, FALSE)

\* `for platform in ["aws", "azure"]`: the first file holding an api_endpoint
\* ends the loop; `if not endpoint` then ends main
auto_detect(fs) ==
    LET aws == load_deployment_info(fs, "aws")
        azure == load_deployment_info(fs, "azure")
    IN  IF has_endpoint(aws)
        THEN Selected(aws.api_endpoint, <<"aws">>, aws, Truthy(aws.api_endpoint))
        ELSE IF has_endpoint(azure)
        THEN Selected(azure.api_endpoint, <<"aws", "azure">>, azure,
                      Truthy(azure.api_endpoint))
        ELSE Selected(PyNone, <<"aws", "azure">>, azure, FALSE)

select_endpoint(fs, endpoint_arg, platform_arg) ==
    IF Truthy(endpoint_arg)
    THEN Selected(endpoint_arg, <<>>, EmptyMapping, TRUE)
    ELSE IF Truthy(platform_arg)
    THEN LET deployment_info == load_deployment_info(fs, platform_arg)
         IN  IF has_endpoint(deployment_info)
             THEN Selected(deployment_info.api_endpoint, <<platform_arg>>,
                           deployment_info, TRUE)
             ELSE Selected(PyNone, <<platform_arg>>, deployment_info, FALSE)
    ELSE auto_detect(fs)

\* how GET /v1/models can end
ConnectionOutcomes == {"models", "undecodable", "status_503", "connection_error"}

\* test_connection taking any answer of the server for a connection
test_connection_any_status(outcome) == outcome \in {"models", "status_503"}

\* True only for status 200 with a body that lists the models
test_connection(outcome) == outcome = "models"

\* main up to the creation of the client
ClientMain ==
    /\ client.pc = "idle"
    /\ dep.pc = "idle"
    /\ demo.pc = "idle"
    /\ \E endpoint_arg \in EndpointArgs, platform_arg \in PlatformArgs,
          interactive \in BOOLEAN :
         LET s == select_endpoint(files, endpoint_arg, platform_arg)
         IN  client' = [pc |-> IF s.proceeds THEN "test_connection" ELSE "exited",
                        endpoint_arg |-> endpoint_arg,
                        platform_arg |-> platform_arg,
                        interactive |-> interactive,
                        endpoint |-> s.endpoint,
                        read |-> s.read,
                        loaded |-> s.loaded,
                        created |-> s.proceeds,
                        sent |-> 0,
                        connection |-> "none",
                        connected |-> FALSE]
    /\ UNCHANGED <<OWM_API_KEY, toolVars, turnVars, deployVars, conversation, chat, demo>>

ClientTestConnection ==
    /\ client.pc = "test_connection"
    /\ \E outcome \in ConnectionOutcomes :
         client' = [client EXCEPT !.pc =
                       IF ~test_connection(outcome) THEN "exited"
                       ELSE IF client.interactive THEN "interactive_chat"
                       ELSE "tests",
                                  !.sent = @ + 1,
                                  !.connection = outcome,
                                  !.connected = test_connection(outcome)]
    /\ UNCHANGED <<OWM_API_KEY, toolVars, turnVars, deployVars, conversation, chat, demo>>

\* the questions of test_weather_questions
questions ==
    <<"What's the weather like in Tokyo?",
      "Should I wear a jacket in London today?",
      "What time is it in New York?",
      "Can you get me a 5-day forecast for Paris?">>

\* the chat requests of test_basic_chat, test_weather_questions and
\* test_reasoning
TestRequests == 1 + Len(questions) + 1

\* test_basic_chat, test_weather_questions, test_reasoning: all their
\* requests are sent, or a reply of another shape ends main with the
\* exception of the test that read it
ClientRunTests ==
    /\ client.pc = "tests"
    /\ \E n \in 1..TestRequests :
         client' = [client EXCEPT !.pc = "exited", !.sent = @ + n]
    /\ UNCHANGED <<OWM_API_KEY, toolVars, turnVars, deployVars, conversation, chat, demo>>

\* the client's process is gone
ClientExit ==
    /\ client.pc = "exited"
    /\ client' = NoClient
    /\ UNCHANGED <<OWM_API_KEY, toolVars, turnVars, deployVars, conversation, chat, demo>>

-----------------------------------------------------------------------------
(* test_gpt_oss_client.py: interactive_chat *)

\* at most MaxInputs non-empty lines are entered in one chat session
MaxInputs == 8

\* `if len(conversation) > 10`
WindowLimit == 10
\* `conversation[-8:]`
WindowTail == 8

\* the messages of the conversation: the k-th non-empty input and the reply
\* to it carry the number k
SystemMessage == [role |-> "system", n |-> 0]
UserMessage(k) == [role |-> "user", n |-> k]
AssistantMessage(k) == [role |-> "assistant", n |-> k]

\* seq[-n:] of Python, n > 0
PyLast(seq, n) ==
    IF Len(seq) <= n THEN seq ELSE SubSeq(seq, Len(seq) - n + 1, Len(seq))

\* "Keep conversation manageable"
truncated(conv) ==
    IF Len(conv) > WindowLimit
    THEN SubSeq(conv, 1, 1) \o PyLast(conv, WindowTail)
    ELSE conv

\* how POST /v1/chat/completions can end: a completion, a failure of the
\* request, or a body that decodes to JSON of another shape
ReplyOutcomes ==
    {"completion", "connection_error", "http_error", "undecodable",
     "error_body", "no_choices"}

\* chat_completion with response.json() after its try block: a body that
\* cannot be decoded raises out of it
chat_completion_decoding_unguarded(msgs, outcome) ==
    IF outcome \in {"connection_error", "http_error"}
    THEN [raised |-> FALSE, has_error |-> TRUE, choices |-> <<>>]
    ELSE IF outcome = "undecodable"
    THEN [raised |-> TRUE, has_error |-> FALSE, choices |-> <<>>]
    ELSE IF outcome = "error_body"
    THEN [raised |-> FALSE, has_error |-> TRUE, choices |-> <<>>]
    ELSE IF outcome = "no_choices"
    THEN [raised |-> FALSE, has_error |-> FALSE, choices |-> <<>>]
    ELSE [raised |-> FALSE, has_error |-> FALSE, choices |-> <<"content">>]

\* what chat_completion gives its caller: whether it raised, and the mapping
\* it returned: whether that has an "error" key, and its list of choices.
\* post, raise_for_status and response.json() are inside its try block
chat_completion(msgs, outcome) ==
    IF outcome \in {"connection_error", "http_error", "undecodable"}
    THEN [raised |-> FALSE, has_error |-> TRUE, choices |-> <<>>]
    ELSE IF outcome = "error_body"
    THEN [raised |-> FALSE, has_error |-> TRUE, choices |-> <<>>]
    ELSE IF outcome = "no_choices"
    THEN [raised |-> FALSE, has_error |-> FALSE, choices |-> <<>>]
    ELSE [raised |-> FALSE, has_error |-> FALSE, choices |-> <<"content">>]

\* the body of the loop for the k-th non-empty input: the conversation
\* after it, the messages of the request it sent, and the conversation as it
\* was when the truncation was reached (<<>> if it was not reached)
loop_body(conv, k, outcome) ==
    LET with_user == Append(conv, UserMessage(k))
        response == chat_completion(with_user, outcome)
    IN  IF response.raised
        THEN \* the exception reaches the loop's `except Exception`
             [conversation |-> with_user, request |-> with_user, before |-> <<>>]
        ELSE IF response.has_error
        THEN [conversation |-> truncated(with_user), request |-> with_user,
              before |-> with_user]
        ELSE IF response.choices = <<>>
        THEN \* response["choices"][0] raises; `except Exception` prints it
             [conversation |-> with_user, request |-> with_user, before |-> <<>>]
        ELSE LET with_reply == Append(with_user, AssistantMessage(k))
             IN  [conversation |-> truncated(with_reply), request |-> with_user,
                  before |-> with_reply]

InteractiveChat ==
    /\ client.pc = "interactive_chat"
    /\ chat.pc = "idle"
    /\ conversation' = <<SystemMessage>>
    /\ chat' = [NoChat EXCEPT !.pc = "loop"]
    /\ UNCHANGED <<OWM_API_KEY, toolVars, turnVars, deployVars, client, demo>>

\* one pass of the loop: a line is read; an empty line changes nothing
ChatInput ==
    /\ chat.pc = "loop"
    /\ chat.inputs < MaxInputs
    /\ \E empty \in BOOLEAN, outcome \in ReplyOutcomes :
         IF empty
         THEN /\ chat' = [chat EXCEPT !.last = "empty", !.request = <<>>,
                                      !.before = <<>>]
              /\ UNCHANGED conversation
         ELSE LET b == loop_body(conversation, chat.inputs + 1, outcome)
              IN  /\ conversation' = b.conversation
                  /\ chat' = [pc |-> "loop", inputs |-> chat.inputs + 1,
                              request |-> b.request, before |-> b.before,
                              last |-> outcome]
    /\ UNCHANGED <<OWM_API_KEY, toolVars, turnVars, deployVars, client, demo>>

\* quit, exit or bye is entered, or the user interrupts
ChatQuit ==
    /\ chat.pc = "loop"
    /\ chat' = NoChat
    /\ conversation' = <<>>
    /\ client' = [client EXCEPT !.pc = "exited"]
    /\ UNCHANGED <<OWM_API_KEY, toolVars, turnVars, deployVars, demo>>

-----------------------------------------------------------------------------
(* The specifications of the provisioning scripts and of the test client *)

\* runs of the two provisioning scripts and of the test client that reads
\* their records
NextDeploy ==
    \/ AwsMain
    \/ AwsCreateKeyPair
    \/ AwsCreateSecurityGroup
    \/ AwsLaunchInstance
    \/ AwsWaitForInstance
    \/ AwsSaveInfo
    \/ AzureMain
    \/ AzureCreateResourceGroup
    \/ AzureCreateNetworkResources
    \/ AzureCreateVm
    \/ AzureGetPublicIp
    \/ AzureSaveInfo
    \/ DeployExit
    \/ ClientMain
    \/ ClientTestConnection
    \/ ClientRunTests
    \/ InteractiveChat
    \/ ChatQuit
    \/ ClientExit

SpecDeploy == Init /\ [][NextDeploy]_vars

\* runs of the test client with its interactive chat
NextChat ==
    \/ ClientMain
    \/ ClientTestConnection
    \/ ClientRunTests
    \/ InteractiveChat
    \/ ChatInput
    \/ ChatQuit
    \/ ClientExit

SpecChat == Init /\ [][NextChat]_vars

-----------------------------------------------------------------------------
(* Properties of the provisioning scripts and of the record they write
   (SpecDeploy) *)

\* C16 as stated: provisioning is an idempotent create-or-reuse: after any
\* number of runs there is at most one security group (network security
\* group), one key pair and one compute instance, in the AWS account as in
\* the Azure account.
C16_AsStated ==
    /\ cloud.aws.key_pairs <= 1
    /\ Len(cloud.aws.security_groups) <= 1
    /\ Len(cloud.aws.instances) <= 1
    /\ cloud.azure.network_security_group <= 1
    /\ cloud.azure.virtual_machine <= 1

\* C17 as stated: a provisioning script writes its JSON summary only after
\* the instance is running and a public address is available: in every
\* written <platform>_deployment_info.json the public_ip is an actual address
\* (never null) and api_endpoint is http://<that address>:8000.
C17_AsStated ==
    \A platform \in {"aws", "azure"} :
        files[platform].exists
        => LET info == json_load(files[platform].text)
           IN  /\ info.public_ip # PyNone
               /\ info.api_endpoint = "http://" \o info.public_ip \o ":8000"

\* a step of the running script has failed
StepFailed == \E i \in DOMAIN dep.steps : dep.steps[i].error # "none"

\* the step of the given name has completed in the running script
StepCompleted(name) ==
    \E i \in DOMAIN dep.steps : dep.steps[i].name = name /\ dep.steps[i].error = "none"

\* the record file of the running script's platform is as it was when the
\* script started
RecordUntouched ==
    /\ files[dep.platform].exists = dep.before.files[dep.platform].exists
    /\ files[dep.platform].exists
       => files[dep.platform].text = dep.before.files[dep.platform].text

\* what the steps completed before the failure made is still there, and
\* nothing that existed when the script started has been removed
NoRollback ==
    /\ cloud.aws.key_pairs >= dep.before.cloud.aws.key_pairs
    /\ Len(cloud.aws.security_groups) >= Len(dep.before.cloud.aws.security_groups)
    /\ Len(cloud.aws.instances) >= Len(dep.before.cloud.aws.instances)
    /\ \A name \in DOMAIN cloud.azure :
           cloud.azure[name] >= dep.before.cloud.azure[name]
    /\ StepCompleted("create_key_pair") => cloud.aws.key_pairs >= 1
    /\ StepCompleted("create_security_group") => Len(cloud.aws.security_groups) >= 1
    /\ StepCompleted("launch_instance")
       => Len(cloud.aws.instances) = Len(dep.before.cloud.aws.instances) + 1
    /\ StepCompleted("create_resource_group") => cloud.azure.resource_group >= 1
    /\ StepCompleted("create_network_resources")
       => \A i \in DOMAIN NetworkResources : cloud.azure[NetworkResources[i]] >= 1
    /\ StepCompleted("create_vm") => cloud.azure.virtual_machine >= 1

\* C18: when any provisioning step fails, the error is re-raised out of
\* deploy and main and the process aborts: the failed step is the last step
\* attempted, no deployment-info file is written, and the resources created
\* by earlier steps are left in place.
C18_FailureAbortsRun ==
    StepFailed
    => /\ dep.steps[Len(dep.steps)].error # "none"
       /\ \A i \in 1..(Len(dep.steps) - 1) : dep.steps[i].error = "none"
       /\ dep.pc = "exited"
       /\ dep.exit = "raised"
       /\ RecordUntouched
       /\ NoRollback

\* an AWS run whose instance was launched and whose wait then failed: the
\* run is over, no record exists, the instance is still there
C18_Witness ==
    /\ dep.platform = "aws"
    /\ dep.exit = "raised"
    /\ Len(dep.steps) = 4
    /\ dep.steps[4].name = "wait_for_instance"
    /\ dep.steps[4].error # "none"
    /\ ~files.aws.exists
    /\ Len(cloud.aws.instances) = 1

\* the test client was started with --platform <platform> and no --endpoint,
\* and has determined its endpoint
ClientReadPlatform(platform) ==
    /\ client.pc # "idle"
    /\ ~Truthy(client.endpoint_arg)
    /\ client.platform_arg = platform

\* the keys of a deployment record
RecordKeys(platform) ==
    {IF platform = "aws" THEN "instance_id" ELSE "vm_id",
     "public_ip", "api_endpoint", "ssh_command"}

\* C19: the deployment record written by a deployer is read back unchanged
\* by the test client: it holds an instance/VM id, public IP, API endpoint
\* and SSH command, and load_deployment_info(platform) followed by main's
\* endpoint selection yields exactly the api_endpoint that deploy returned
\* for that platform; when the file does not exist load_deployment_info
\* returns an empty mapping and no endpoint is taken from it.
C19_RecordReadBack ==
    \A platform \in {"aws", "azure"} :
        ClientReadPlatform(platform)
        => IF files[platform].exists
           THEN /\ deployed[platform].returned
                /\ RecordKeys(platform) \subseteq DOMAIN load_deployment_info(files, platform)
                /\ load_deployment_info(files, platform) = deployed[platform].info
                /\ client.read = <<platform>>
                /\ client.loaded = deployed[platform].info
                /\ client.endpoint = deployed[platform].info.api_endpoint
           ELSE /\ DOMAIN load_deployment_info(files, platform) = {}
                /\ DOMAIN client.loaded = {}
                /\ client.endpoint = PyNone
                /\ client.pc = "exited"

\* the client was started with --platform azure after both deployers had
\* written their records, and goes on with the Azure endpoint
C19_Witness ==
    /\ ClientReadPlatform("azure")
    /\ files.aws.exists
    /\ files.azure.exists
    /\ client.pc = "test_connection"
    /\ client.endpoint = "http://198.51.100.9:8000"

-----------------------------------------------------------------------------
(* Properties of interactive_chat (SpecChat) *)

\* the last pass of the loop reached the truncation and shortened the
\* conversation
Truncated == Len(chat.before) > WindowLimit

\* C20 as stated: in interactive_chat the conversation is truncated to a
\* fixed window: after every loop iteration it holds at most 10 messages, its
\* first message is always the original system message, truncation keeps the
\* system message followed by the 8 most recent messages in their original
\* order, and no request is ever sent with more than 11 messages.
C20_AsStated ==
    chat.pc = "loop"
    => /\ Len(conversation) <= 10
       /\ conversation[1] = SystemMessage
       /\ Truncated
          => /\ Len(conversation) = 9
             /\ \A i \in 1..8 :
                    conversation[1 + i] = chat.before[Len(chat.before) - 8 + i]
       /\ Len(chat.request) <= 11

-----------------------------------------------------------------------------
(* Properties of the tool-calling loop across the four scripts (Spec) *)

\* the listed calls of the finished turn that name a tool its script registers
RegisteredCalls ==
    {k \in DOMAIN tool_calls : tool_calls[k].name \in RegisteredToolsOf(turn_script)}

\* C21 as stated: the tool-calling loop is the same in all four scripts: in
\* each of them, when the model's response requests a registered tool, the
\* matching local function is executed, its result is appended to the
\* conversation as a new message, and a follow-up completion is requested
\* whose text is returned.
C21_AsStated ==
    (pc = "done" /\ RegisteredCalls # {})
    => /\ \A k \in RegisteredCalls : tool_calls[k].id \in {executed[i] : i \in DOMAIN executed}
       /\ Len(requests) = 2
       /\ \A k \in RegisteredCalls :
            \E i \in DOMAIN requests[2].messages :
                /\ requests[2].messages[i].role = "tool"
                /\ requests[2].messages[i].tool_call_id = tool_calls[k].id
       /\ ret \in {r.content : r \in SecondResponses}

-----------------------------------------------------------------------------
(* Properties of the order of the provisioning steps (SpecDeploy) *)

\* the steps of a run in the order of the claim, the last one being main's
\* writing of the record
StepOrder(platform) ==
    IF platform = "aws"
    THEN <<"create_key_pair", "create_security_group", "launch_instance",
           "wait_for_instance", "save">>
    ELSE <<"create_resource_group", "create_network_resources", "create_vm",
           "get_public_ip", "save">>

\* seq is an initial part of order
IsPrefix(seq, order) ==
    /\ Len(seq) <= Len(order)
    /\ \A i \in DOMAIN seq : seq[i] = order[i]

\* C22: provisioning steps run in a fixed sequence and each exactly once per
\* deploy: on AWS key pair, security group, instance launch, wait; on Azure
\* resource group, then virtual network, subnet, network security group,
\* public IP, network interface, then VM, then public IP lookup. An instance
\* or VM is never launched before the key pair and the security group
\* (network interface) it references exist.
C22_FixedSequence ==
    /\ dep.platform # "none"
       => /\ IsPrefix([i \in DOMAIN dep.steps |-> dep.steps[i].name],
                      StepOrder(dep.platform))
          /\ IsPrefix(dep.network,
                      <<"virtual_network", "subnet", "network_security_group",
                        "public_ip", "network_interface">>)
          /\ dep.network # <<>>
             => /\ dep.platform = "azure"
                /\ StepCompleted("create_resource_group")
          /\ StepCompleted("create_network_resources") => Len(dep.network) = 5
    /\ \A n \in DOMAIN cloud.aws.instances :
          /\ cloud.aws.key_pairs >= 1
          /\ \E g \in DOMAIN cloud.aws.security_groups :
                cloud.aws.security_groups[g].id = cloud.aws.instances[n].security_group
    /\ cloud.azure.virtual_machine >= 1
       => /\ cloud.azure.network_interface >= 1
          /\ cloud.azure.public_ip >= 1
          /\ cloud.azure.network_security_group >= 1

\* an Azure run that went through every step and wrote its record
C22_Witness ==
    /\ dep.platform = "azure"
    /\ dep.exit = "completed"
    /\ Len(dep.steps) = 5
    /\ Len(dep.network) = 5
    /\ cloud.azure.virtual_machine = 1

-----------------------------------------------------------------------------
(* Properties of the turn's outcome (Spec) *)

\* the strings that start with the error marker and end with a script's hint
ErrorTexts ==
    {ErrorMarker \o " " \o e \o hint :
        e \in {"Connection error.", "Expecting value", "TypeError", "KeyError"},
        hint \in {". Please check your API keys and internet connection.",
                  ". Please check that Ollama is running and the model is available."}}

\* the turn of an assistant_with_tools is over
AssistantTurnDone == pc = "done" /\ turn_script \in TurnScripts

\* the turn ended where only an exception can end it: with no response to
\* its first request, or inside the loop over the listed calls
EndedByException ==
    /\ AssistantTurnDone
    /\ Len(requests) = 1
    /\ Len(messages) = 2 \/ tool_calls # <<>>

\* C23: a conversation turn never raises: any exception during the turn (a
\* failed completion request, tool-call arguments that are not valid JSON,
\* an error raised by a tool function) ends the turn with a returned string
\* that starts with the error marker, and after such an exception no further
\* tool is executed and no further request is sent in that turn.
C23_ExceptionEndsTurn ==
    /\ EndedByException => ret \in ErrorTexts
    /\ (AssistantTurnDone /\ ret \in ErrorTexts)
       => \/ /\ Len(requests) = 1
             /\ Len(messages) = 2
             /\ executed = <<>>
          \/ /\ Len(requests) = 1
             /\ idx \in DOMAIN tool_calls
             /\ \A k \in DOMAIN executed : PositionOf(executed[k]) <= idx
             /\ \A i \in DOMAIN messages :
                   messages[i].role = "tool"
                   => PositionOf(messages[i].tool_call_id) < idx
          \/ /\ Len(requests) = 2
             /\ idx = Len(tool_calls) + 1
             /\ second_calls = <<>>

\* the second of two listed calls raised: the first was executed, the turn
\* returned the error string after its one request
C23_Witness ==
    /\ AssistantTurnDone
    /\ turn_script = "testing_kp"
    /\ Len(tool_calls) = 2
    /\ idx = 2
    /\ executed = <<"call_1">>
    /\ Len(requests) = 1
    /\ ret = ErrorMarker \o " TypeError. Please check your API keys and internet connection."

\* C24 as stated: assistant_with_tools returns a string on every path, for
\* every possible model response: the value returned is never None, whether
\* the terminal response is the first one or the second one and whatever
\* that response contains (text, tool calls, or both).
C24_AsStated ==
    AssistantTurnDone => ret # PyNone

-----------------------------------------------------------------------------
(* Properties of the test client's start (SpecDeploy) *)

\* the record file of a platform holds an api_endpoint
HoldsEndpoint(platform) ==
    files[platform].exists /\ "api_endpoint" \in DOMAIN files[platform].text

\* the api_endpoint in the record file of a platform
EndpointIn(platform) == json_load(files[platform].text).api_endpoint

\* main ended at the choice of the endpoint: no client, no request
EndedWithoutClient ==
    /\ client.pc = "exited"
    /\ client.endpoint = PyNone
    /\ ~client.created
    /\ client.sent = 0

\* the precedence of C25, for a given reading of "an --endpoint value is given"
Precedence(endpoint_given) ==
    client.pc # "idle"
    => IF endpoint_given
       THEN /\ client.endpoint = client.endpoint_arg
            /\ client.read = <<>>
            /\ client.created
       ELSE IF client.platform_arg # PyNone
       THEN /\ client.read = <<client.platform_arg>>
            /\ IF HoldsEndpoint(client.platform_arg)
               THEN /\ client.endpoint = EndpointIn(client.platform_arg)
                    /\ client.created
               ELSE EndedWithoutClient
       ELSE IF HoldsEndpoint("aws")
       THEN /\ client.endpoint = EndpointIn("aws")
            /\ client.read = <<"aws">>
            /\ client.created
       ELSE IF HoldsEndpoint("azure")
       THEN /\ client.endpoint = EndpointIn("azure")
            /\ client.read = <<"aws", "azure">>
            /\ client.created
       ELSE /\ client.read = <<"aws", "azure">>
            /\ EndedWithoutClient

\* C25 as stated: the endpoint is chosen by strict precedence: an --endpoint
\* value is used whenever given (no deployment file is read), otherwise the
\* --platform deployment file, otherwise auto-detection that tries aws
\* before azure and takes the first file holding an api_endpoint; when no
\* endpoint can be determined main returns without creating a client or
\* sending any request.
C25_AsStated == Precedence(client.endpoint_arg # PyNone)

\* C25 with the --endpoint value counted as given when it is not empty: an
\* empty value is passed over like an absent one
C25_EndpointPrecedence == Precedence(Truthy(client.endpoint_arg))

\* auto-detection with both record files present takes the AWS endpoint
C25_Witness ==
    /\ client.pc = "test_connection"
    /\ client.endpoint_arg = PyNone
    /\ client.platform_arg = PyNone
    /\ HoldsEndpoint("aws")
    /\ HoldsEndpoint("azure")
    /\ client.endpoint = EndpointIn("aws")
    /\ client.read = <<"aws">>

-----------------------------------------------------------------------------
(* main of testing_kp.py, of gpt_oss_ollama_weather.py and of
   gpt_oss_local_demo.py: the start-up check, the demo queries, the
   interactive loop *)

\* at most MaxDemoInputs non-empty lines are entered in the interactive loop
MaxDemoInputs == 2

\* the demo queries of each main; a query is named by its script and number
test_queries(script) ==
    CASE script = "testing_kp" -> <<"kp-1", "kp-2", "kp-3", "kp-4", "kp-5", "kp-6">>
      [] script = "ollama" -> <<"ollama-1">>
      [] OTHER -> <<"local-1", "local-2", "local-3">>

\* what the start-up check of a main can meet: the value of OPENAI_API_KEY
\* for testing_kp.py, the fate of the test completion for the Ollama scripts
GateOutcomes(script) ==
    IF script = "testing_kp" THEN {"key_set", "key_unset", "key_empty"}
    ELSE {"content", "empty_content", "no_choices", "exception"}
         \cup (IF script = "local_demo" THEN {"client_init_failed"} ELSE {})

\* test_ollama_connection of the two Ollama scripts: gpt_oss_ollama_weather.py
\* wants a non-empty content, gpt_oss_local_demo.py a non-empty list of
\* choices; an exception gives False in both
test_ollama_connection(script, outcome) ==
    IF script = "ollama" THEN outcome = "content"
    ELSE outcome \in {"content", "empty_content"}

\* the start-up check of a main: whether main goes on, and the completion
\* requests the check itself sent
gate(script, outcome) ==
    IF script = "testing_kp"
    THEN [ok |-> outcome = "key_set", requests |-> 0]
    ELSE IF outcome = "client_init_failed"
    THEN [ok |-> FALSE, requests |-> 0]
    ELSE [ok |-> test_ollama_connection(script, outcome), requests |-> 1]

\* main up to the demo queries
DemoMain ==
    /\ demo.pc = "idle"
    /\ client.pc = "idle"
    /\ \E script \in TurnScripts :
       \E outcome \in GateOutcomes(script) :
         LET g == gate(script, outcome)
         IN  demo' = [NoDemo EXCEPT !.script = script,
                                    !.pc = IF g.ok THEN "queries" ELSE "exited",
                                    !.gate = outcome,
                                    !.gate_ok = g.ok,
                                    !.requests = g.requests]
    /\ UNCHANGED <<OWM_API_KEY, toolVars, turnVars, deployVars, client, conversation, chat>>

\* one pass of the loop over the demo queries: a turn, which sends one or two
\* completion requests
DemoQuery ==
    /\ demo.pc = "queries"
    /\ \E sent \in 1..2 :
         demo' = [demo EXCEPT !.queries = @ + 1,
                              !.requests = @ + sent,
                              !.pc = IF demo.queries + 1 = Len(test_queries(demo.script))
                                     THEN "interactive" ELSE "queries"]
    /\ UNCHANGED <<OWM_API_KEY, toolVars, turnVars, deployVars, client, conversation, chat>>

\* one pass of the interactive loop: an empty line changes nothing, quit ends
\* main, any other line is a turn
DemoInput ==
    /\ demo.pc = "interactive"
    /\ \E line \in {"empty", "quit", "text"}, sent \in 1..2 :
         demo' = CASE line = "empty" -> demo
                   [] line = "quit" -> [demo EXCEPT !.pc = "exited"]
                   [] OTHER ->
                        IF demo.inputs < MaxDemoInputs
                        THEN [demo EXCEPT !.inputs = @ + 1, !.queries = @ + 1,
                                          !.requests = @ + sent]
                        ELSE demo
    /\ UNCHANGED <<OWM_API_KEY, toolVars, turnVars, deployVars, client, conversation, chat>>

\* the script's process is gone
DemoExit ==
    /\ demo.pc = "exited"
    /\ demo' = NoDemo
    /\ UNCHANGED <<OWM_API_KEY, toolVars, turnVars, deployVars, client, conversation, chat>>

\* runs of the demo scripts' mains and of the test client
NextMains ==
    \/ DemoMain
    \/ DemoQuery
    \/ DemoInput
    \/ DemoExit
    \/ ClientMain
    \/ ClientTestConnection
    \/ ClientRunTests
    \/ InteractiveChat
    \/ ChatInput
    \/ ChatQuit
    \/ ClientExit

SpecMains == Init /\ [][NextMains]_vars

-----------------------------------------------------------------------------
(* Properties of the start-up checks (SpecMains) *)

\* C26: start-up gating: no demo query or chat request is sent when required
\* configuration or connectivity is missing: testing_kp.main sends no
\* completion request when OPENAI_API_KEY is unset, the Ollama mains run no
\* query when test_ollama_connection returns False, and the test client runs
\* no chat test and no interactive session when test_connection returns
\* False (which it does for every non-200 status and every exception).
C26_StartupGating ==
    /\ (demo.script = "testing_kp" /\ demo.gate # "key_set")
       => demo.requests = 0 /\ demo.queries = 0 /\ demo.pc = "exited"
    /\ (demo.script \in {"ollama", "local_demo"} /\ ~demo.gate_ok)
       => demo.queries = 0 /\ demo.requests <= 1 /\ demo.pc = "exited"
    /\ (demo.script \in {"ollama", "local_demo"}
          /\ demo.gate \in {"no_choices", "exception", "client_init_failed"})
       => ~demo.gate_ok
    /\ client.connection \in {"status_503", "connection_error", "undecodable"}
       => ~client.connected
    /\ (client.connection # "none" /\ ~client.connected)
       => client.pc = "exited" /\ client.sent = 1 /\ chat.pc = "idle"
    /\ (client.pc \in {"tests", "interactive_chat"} \/ chat.pc # "idle"
          \/ client.sent > 1)
       => client.connected /\ client.connection = "models"

\* the test client, started with --interactive, met status 503 and ended
\* after that one request
C26_Witness ==
    /\ client.connection = "status_503"
    /\ client.pc = "exited"
    /\ client.sent = 1
    /\ client.interactive

-----------------------------------------------------------------------------
(* Properties of chat_completion and of the requests of interactive_chat
   (SpecChat) *)

\* the ways a request can fail
RequestFailures == {"connection_error", "http_error", "undecodable"}

\* the last pass of the loop sent a request
RequestSent == chat.pc = "loop" /\ chat.request # <<>>

\* C27: chat_completion never raises: every failure of the request
\* (connection error, timeout, HTTP error status, undecodable body) is
\* returned as a mapping with an "error" key, choices[0].message.content is
\* read only from a response that has no "error" key, and in interactive_chat
\* an assistant message is appended to the conversation only for such a
\* response.
C27_FailureIsErrorMapping ==
    /\ \A outcome \in ReplyOutcomes :
          LET response == chat_completion(chat.request, outcome)
          IN  /\ ~response.raised
              /\ outcome \in RequestFailures => response.has_error
    /\ (RequestSent /\ chat.last \in RequestFailures \cup {"error_body"})
       => \* the pass went on to the truncation with the user message last
          /\ chat.before = chat.request
          /\ chat.before[Len(chat.before)] = UserMessage(chat.inputs)
          /\ \A i \in DOMAIN conversation :
                conversation[i] # AssistantMessage(chat.inputs)
    /\ (RequestSent
          /\ \E i \in DOMAIN conversation : conversation[i] = AssistantMessage(chat.inputs))
       => chat.last = "completion"

\* a request that met an HTTP error status: its user message stays the last
\* message of the conversation
C27_Witness ==
    /\ RequestSent
    /\ chat.last = "http_error"
    /\ chat.inputs = 2
    /\ Len(conversation) = 4
    /\ conversation[4] = UserMessage(2)
    /\ conversation[3] = AssistantMessage(1)

\* C28 as stated: in interactive_chat, for any sequence of non-empty inputs
\* and any mix of successful and failed requests, the messages of every
\* request sent are the system message followed by strictly alternating user
\* and assistant messages, beginning with a user message and ending with the
\* newest user message.
C28_AsStated ==
    RequestSent
    => /\ chat.request[1] = SystemMessage
       /\ \A i \in 2..Len(chat.request) :
             chat.request[i].role = IF i % 2 = 0 THEN "user" ELSE "assistant"
       /\ chat.request[Len(chat.request)] = UserMessage(chat.inputs)

-----------------------------------------------------------------------------
(* Properties of the security group across AWS runs (SpecDeploy) *)

\* C29 as stated: across any sequence of AWS deploy runs, including runs that
\* failed part-way, every instance launched by launch_instance uses a
\* security group that has the inbound rules for TCP 22 and TCP 8000:
\* create_security_group never returns the id of a group named gpt-oss-sg
\* that lacks those ingress rules.
C29_AsStated ==
    /\ \A n \in DOMAIN cloud.aws.instances :
          \E g \in DOMAIN cloud.aws.security_groups :
              /\ cloud.aws.security_groups[g].id = cloud.aws.instances[n].security_group
              /\ cloud.aws.security_groups[g].rules
    /\ (dep.platform = "aws" /\ StepCompleted("create_security_group"))
       => \E g \in DOMAIN cloud.aws.security_groups :
              /\ cloud.aws.security_groups[g].id = dep.security_group_id
              /\ cloud.aws.security_groups[g].rules

\* ---------------------------------------------------------------------
\* Properties of the unit label of get_weather (SpecTools)
\* ---------------------------------------------------------------------

\* the result of the call carries a unit label
HasUnitLabel ==
    /\ Entered("get_weather")
    /\ result.kind = "returned"
    /\ "unit" \in DOMAIN result.value

\* C30 as stated: for every value of the unit argument of get_weather
\* (values outside {celsius, fahrenheit} included) the unit label in the
\* result is the one both the path without an API key and the path with one
\* give for that value, and the real-data path requests imperial units from
\* the weather source exactly when the label is "°F" and metric units exactly
\* when it is "°C".
C30_AsStated ==
    /\ HasUnitLabel
       => /\ result.value.unit = simulated_unit_label(unit_of(call.args))
          /\ result.value.unit = real_unit_label(unit_of(call.args))
    /\ (HasUnitLabel /\ result.value.status = "success")
       => /\ Len(http_requests) = 1
          /\ http_requests[1].units = "imperial" <=> result.value.unit = "°F"
          /\ http_requests[1].units = "metric" <=> result.value.unit = "°C"

====
